---------------------------- MODULE Spec2Model ----------------------------
(***************************************************************************)
(* A model of the odata-params filter front end: the data model            *)
(* (filters/mod.rs), the type validator (filters/validate.rs), the PEG     *)
(* parser (filters/parse.rs) and the serializer                            *)
(* (filters/to_query_string.rs).  The three stages are pure functions;     *)
(* each is an operator, and the specifications below apply them to inputs  *)
(* drawn from bounded sets.                                                *)
(***************************************************************************)
EXTENDS Integers, Sequences, FiniteSets, TLC

VARIABLES
    \* Type equality (SpecT): the two operands and the two results.
    tpc, self_t, other_t, eq_st, eq_ts,
    \* Validator (SpecV): the call's inputs and the two entry points' results.
    vpc, expr, identifiers, functions, vresult, valid,
    \* Parser and serializer (SpecP): the operand texts and keywords the input
    \* is joined from, the input, its tree, the tree's text and that text's
    \* tree; a text derived from the input with the text and the keyword
    \* joined to it, and the derived text's tree.
    ppc, operands, keywords, input, parsed, rendered, reparsed,
    side, keyword, derived, derived_parsed,
    \* Serializer (SpecS): a tree and the result of to_query_string for it.
    spc, stree, soutput

tvars == <<tpc, self_t, other_t, eq_st, eq_ts>>
vvars == <<vpc, expr, identifiers, functions, vresult, valid>>
pvars == <<ppc, operands, keywords, input, parsed, rendered, reparsed,
           side, keyword, derived, derived_parsed>>
svars == <<spc, stree, soutput>>
vars == <<tvars, vvars, pvars, svars>>

None == <<>>
Some(x) == <<x>>

-----------------------------------------------------------------------------
(* Data model: filters/mod.rs *)

Type == {"Null", "Boolean", "Number", "Uuid", "DateTime", "Date", "Time", "String"}

\* impl PartialEq for Type: equal variants, or either side is Null.
Type_eq_no_self_null(self, other) == self = other \/ other = "Null"
Type_eq(self, other) == self = other \/ other = "Null" \/ self = "Null"

CompareOperator == {"Equal", "NotEqual", "GreaterThan", "GreaterOrEqual",
                    "LessThan", "LessOrEqual", "Has"}
LambdaOperator == {"Any", "All"}

\* enum Value: the variant and its payload.
Value_Null == [kind |-> "Null"]
Value_Bool(b) == [kind |-> "Bool", v |-> b]
Value_Number(n) == [kind |-> "Number", v |-> n]
Value_Uuid(u) == [kind |-> "Uuid", v |-> u]
Value_DateTime(d) == [kind |-> "DateTime", v |-> d]
Value_Date(d) == [kind |-> "Date", v |-> d]
Value_Time(t) == [kind |-> "Time", v |-> t]
Value_String(s) == [kind |-> "String", v |-> s]

\* enum Expr.
Or(l, r) == [tag |-> "Or", lhs |-> l, rhs |-> r]
And(l, r) == [tag |-> "And", lhs |-> l, rhs |-> r]
Not(e) == [tag |-> "Not", inner |-> e]
Compare(l, op, r) == [tag |-> "Compare", lhs |-> l, op |-> op, rhs |-> r]
In(l, values) == [tag |-> "In", lhs |-> l, values |-> values]
Function(name, args) == [tag |-> "Function", name |-> name, args |-> args]
Lambda(l, op, var, e) == [tag |-> "Lambda", lhs |-> l, op |-> op, var |-> var, body |-> e]
Identifier(name) == [tag |-> "Identifier", name |-> name]
Alias(name) == [tag |-> "Alias", name |-> name]
Value(v) == [tag |-> "Value", value |-> v]

\* Result<T, E>.
Ok(v) == [ok |-> TRUE, val |-> v]
Err(e) == [ok |-> FALSE, err |-> e]

\* enum ValidationError.
LogicalJoinRequiresBooleans(l, r) ==
    [kind |-> "LogicalJoinRequiresBooleans", lhs |-> l, rhs |-> r]
LogicalNotRequiresBoolean(given) ==
    [kind |-> "LogicalNotRequiresBoolean", given |-> given]
ComparingIncompatibleTypes(l, r) ==
    [kind |-> "ComparingIncompatibleTypes", lhs |-> l, rhs |-> r]
UndefinedIdentifier(name) == [kind |-> "UndefinedIdentifier", name |-> name]
UndefinedFunction(name) == [kind |-> "UndefinedFunction", name |-> name]
IncorrectFunctionArgumentsCount(name, is_variadic, expected, given) ==
    [kind |-> "IncorrectFunctionArgumentsCount", name |-> name,
     is_variadic |-> is_variadic, expected |-> expected, given |-> given]
IncorrectFunctionArgumentType(name, position, expected, given) ==
    [kind |-> "IncorrectFunctionArgumentType", name |-> name,
     position |-> position, expected |-> expected, given |-> given]

\* One entry of FunctionsTypeMap: (Vec<Type>, Option<Type>, Type).
Signature(types, variadic, ret) == [types |-> types, variadic |-> variadic, ret |-> ret]


-----------------------------------------------------------------------------
(* Type validator: filters/validate.rs *)

\* The structural type of a literal (the Expr::Value arm).
value_type(value) ==
    CASE value.kind = "Null" -> "Null"
      [] value.kind = "Bool" -> "Boolean"
      [] value.kind = "Number" -> "Number"
      [] value.kind = "Uuid" -> "Uuid"
      [] value.kind = "DateTime" -> "DateTime"
      [] value.kind = "Date" -> "Date"
      [] value.kind = "Time" -> "Time"
      [] value.kind = "String" -> "String"

\* The arity test of the Function arm: TRUE when the call is rejected.
arity_mismatch_off_by_one(sig, n_args) ==
    \/ (sig.variadic = None /\ Len(sig.types) # n_args)
    \/ (sig.variadic # None /\ Len(sig.types) >= n_args)
arity_mismatch(sig, n_args) ==
    \/ (sig.variadic = None /\ Len(sig.types) # n_args)
    \/ (sig.variadic # None /\ Len(sig.types) > n_args)

\* types.iter().copied().chain(repeat(variadic.unwrap_or(Type::Null))),
\* zipped with the arguments: the expected type of each argument position.
expected_types_variadic_first(sig, n_args) ==
    [i \in 1..n_args |->
        IF sig.variadic # None THEN sig.variadic[1]
        ELSE IF i <= Len(sig.types) THEN sig.types[i] ELSE "Null"]
expected_types(sig, n_args) ==
    [i \in 1..n_args |->
        IF i <= Len(sig.types) THEN sig.types[i]
        ELSE IF sig.variadic = None THEN "Null" ELSE sig.variadic[1]]

\* The final test of the Or/And arm on the two operand types.
join_result(lhs_type, rhs_type) ==
    IF Type_eq(lhs_type, "Boolean") /\ Type_eq(rhs_type, "Boolean")
    THEN Ok("Boolean")
    ELSE Err(LogicalJoinRequiresBooleans(lhs_type, rhs_type))

\* The final test of the Not arm on the operand type.
not_result(inner_type) ==
    IF Type_eq(inner_type, "Boolean")
    THEN Ok("Boolean")
    ELSE Err(LogicalNotRequiresBoolean(inner_type))

\* The final test of the Compare arm on the two operand types.
compare_result_same_variant(lhs_type, rhs_type) ==
    IF lhs_type = rhs_type
    THEN Ok("Boolean")
    ELSE Err(ComparingIncompatibleTypes(lhs_type, rhs_type))
compare_result(lhs_type, rhs_type) ==
    IF Type_eq(lhs_type, rhs_type)
    THEN Ok("Boolean")
    ELSE Err(ComparingIncompatibleTypes(lhs_type, rhs_type))

\* The final test of the Lambda arm on the body's type.
lambda_result(expr_type) ==
    IF Type_eq(expr_type, "Boolean")
    THEN Ok("Boolean")
    ELSE Err(LogicalNotRequiresBoolean(expr_type))

\* The scope of a lambda body: identifiers.clone() with var inserted as
\* Type::Null (an insert replaces the entry of an existing key).
scoped_identifiers_keep_existing(ids, var) ==
    [n \in DOMAIN ids \cup {var} |-> IF n \in DOMAIN ids THEN ids[n] ELSE "Null"]
scoped_identifiers(ids, var) ==
    [n \in DOMAIN ids \cup {var} |-> IF n = var THEN "Null" ELSE ids[n]]

\* The Identifier arm with Type::Null for a name the map does not hold.
identifier_lookup_lenient(ids, name) ==
    IF name \in DOMAIN ids THEN Ok(ids[name]) ELSE Ok("Null")

\* The Identifier arm: identifiers.0.get(identifier).
identifier_lookup(ids, name) ==
    IF name \in DOMAIN ids THEN Ok(ids[name]) ELSE Err(UndefinedIdentifier(name))

\* The Alias arm: identifiers.0.get(name), the name as it is stored.
alias_lookup_without_at(ids, name) ==
    IF Tail(name) \in DOMAIN ids THEN Ok(ids[Tail(name)]) ELSE Err(UndefinedIdentifier(name))
alias_lookup(ids, name) ==
    IF name \in DOMAIN ids THEN Ok(ids[name]) ELSE Err(UndefinedIdentifier(name))

\* The result of the Function arm once every argument has passed: Ok(*ret).
function_result_boolean(sig) == Ok("Boolean")
function_result(sig) == Ok(sig.ret)

\* The test of the In arm on one element: lhs_type != value_type.
in_mismatch_with_null(lhs_type, elem_type) ==
    ~Type_eq(lhs_type, elem_type) \/ (lhs_type = "Null" /\ elem_type # "Null")
in_mismatch(lhs_type, elem_type) == ~Type_eq(lhs_type, elem_type)

RECURSIVE validate(_, _, _)
RECURSIVE validate_in_values(_, _, _, _, _)
RECURSIVE validate_args(_, _, _, _, _, _)

\* The In loop with every remaining element validated before the first
\* comparison of types.
validate_in_values_validates_all_first(lhs_type, values, i, ids, fns) ==
    IF i > Len(values) THEN Ok("Boolean")
    ELSE LET invalid == { j \in i..Len(values) : ~validate(values[j], ids, fns).ok }
             value_type_r == validate(values[i], ids, fns) IN
         IF invalid # {}
         THEN validate(values[CHOOSE j \in invalid : \A k \in invalid : j <= k], ids, fns)
         ELSE IF in_mismatch(lhs_type, value_type_r.val)
              THEN Err(ComparingIncompatibleTypes(lhs_type, value_type_r.val))
              ELSE validate_in_values(lhs_type, values, i + 1, ids, fns)

\* The `for value in values` loop of the In arm, from element i on.
validate_in_values(lhs_type, values, i, ids, fns) ==
    IF i > Len(values) THEN Ok("Boolean")
    ELSE LET value_type_r == validate(values[i], ids, fns) IN
         IF ~value_type_r.ok THEN value_type_r
         ELSE IF in_mismatch(lhs_type, value_type_r.val)
              THEN Err(ComparingIncompatibleTypes(lhs_type, value_type_r.val))
              ELSE validate_in_values(lhs_type, values, i + 1, ids, fns)

\* The `for (index, (arg, expected_type))` loop of the Function arm, from
\* argument i on (i is index + 1).
validate_args(name, sig, args, i, ids, fns) ==
    IF i > Len(args) THEN function_result(sig)
    ELSE LET arg_type == validate(args[i], ids, fns)
             expected_type == expected_types(sig, Len(args))[i]
         IN  IF ~arg_type.ok THEN arg_type
             ELSE IF ~Type_eq(arg_type.val, expected_type)
                  THEN Err(IncorrectFunctionArgumentType(name, i, expected_type, arg_type.val))
                  ELSE validate_args(name, sig, args, i + 1, ids, fns)

\* Expr::validate.  ids is the IdentifiersTypeMap and fns the
\* FunctionsTypeMap, each a function from the names it defines.
validate(e, ids, fns) ==
    CASE e.tag \in {"Or", "And"} ->
            LET lhs_type == validate(e.lhs, ids, fns) IN
            IF ~lhs_type.ok THEN lhs_type
            ELSE LET rhs_type == validate(e.rhs, ids, fns) IN
                 IF ~rhs_type.ok THEN rhs_type
                 ELSE join_result(lhs_type.val, rhs_type.val)
      [] e.tag = "Not" ->
            LET inner_type == validate(e.inner, ids, fns) IN
            IF ~inner_type.ok THEN inner_type
            ELSE not_result(inner_type.val)
      [] e.tag = "Compare" ->
            LET lhs_type == validate(e.lhs, ids, fns) IN
            IF ~lhs_type.ok THEN lhs_type
            ELSE LET rhs_type == validate(e.rhs, ids, fns) IN
                 IF ~rhs_type.ok THEN rhs_type
                 ELSE compare_result(lhs_type.val, rhs_type.val)
      [] e.tag = "In" ->
            LET lhs_type == validate(e.lhs, ids, fns) IN
            IF ~lhs_type.ok THEN lhs_type
            ELSE validate_in_values(lhs_type.val, e.values, 1, ids, fns)
      [] e.tag = "Function" ->
            IF e.name \notin DOMAIN fns
            THEN Err(UndefinedFunction(e.name))
            ELSE LET sig == fns[e.name] IN
                 IF arity_mismatch(sig, Len(e.args))
                 THEN Err(IncorrectFunctionArgumentsCount(
                            e.name, sig.variadic # None, Len(sig.types), Len(e.args)))
                 ELSE validate_args(e.name, sig, e.args, 1, ids, fns)
      [] e.tag = "Lambda" ->
            LET lhs_type == validate(e.lhs, ids, fns) IN
            IF ~lhs_type.ok THEN lhs_type
            ELSE LET expr_type == validate(e.body, scoped_identifiers(ids, e.var), fns)
                 IN  IF ~expr_type.ok THEN expr_type
                     ELSE lambda_result(expr_type.val)
      [] e.tag = "Identifier" -> identifier_lookup(ids, e.name)
      [] e.tag = "Alias" -> alias_lookup(ids, e.name)
      [] e.tag = "Value" -> Ok(value_type(e.value))

\* Expr::are_types_valid.
are_types_valid(e, ids, fns) ==
    LET overall_type == validate(e, ids, fns) IN
    IF ~overall_type.ok THEN overall_type
    ELSE Ok(Type_eq(overall_type.val, "Boolean"))


-----------------------------------------------------------------------------
(* Grammar parser: filters/parse.rs.  A text is a sequence of characters,  *)
(* each a one-character string.  A rule applied at position p either fails *)
(* or matches up to a position and yields its value; the rules of the      *)
(* grammar that return Result carry an Ok or an Err as that value.         *)

\* The one element of a set of one element: names a value that is used more
\* than once.
Only(S) == CHOOSE x \in S : TRUE

Fail == [m |-> FALSE]
Match(pos, val) == [m |-> TRUE, pos |-> pos, val |-> val]

Lower == {"a", "b", "c", "d", "e", "f", "g", "h", "i", "j", "k", "l", "m",
          "n", "o", "p", "q", "r", "s", "t", "u", "v", "w", "x", "y", "z"}
Upper == {"A", "B", "C", "D", "E", "F", "G", "H", "I", "J", "K", "L", "M",
          "N", "O", "P", "Q", "R", "S", "T", "U", "V", "W", "X", "Y", "Z"}
Digit == {"0", "1", "2", "3", "4", "5", "6", "7", "8", "9"}
HexDigit == Digit \cup {"a", "b", "c", "d", "e", "f", "A", "B", "C", "D", "E", "F"}
IdentifierStart == Lower \cup Upper \cup {"_"}
IdentifierRest == IdentifierStart \cup Digit
WhitespaceChars == {" ", "\t", "\n", "\r"}

\* A literal of the grammar matches at p.
Lit(s, p, str) ==
    /\ p + Len(str) - 1 <= Len(s)
    /\ SubSeq(s, p, p + Len(str) - 1) = str

\* The position after the longest run, from p, of at most max characters of a
\* class (a greedy repetition).
RECURSIVE SkipClass(_, _, _, _)
SkipClass(s, p, class, max) ==
    IF max > 0 /\ p <= Len(s) /\ s[p] \in class
    THEN SkipClass(s, p + 1, class, max - 1)
    ELSE p

\* char::is_whitespace: the characters of the Unicode property White_Space,
\* U+0009..U+000D, U+0020, U+0085, U+00A0, U+1680, U+2000..U+200A, U+2028,
\* U+2029, U+202F, U+205F and U+3000 (a character outside the table of
\* char_from_u32 is written U+n, n in decimal).
WhiteSpace ==
    WhitespaceChars
    \cup { "U+11", "U+12", "U+133", "U+160", "U+5760",
           "U+8192", "U+8193", "U+8194", "U+8195", "U+8196", "U+8197", "U+8198",
           "U+8199", "U+8200", "U+8201", "U+8202",
           "U+8232", "U+8233", "U+8239", "U+8287", "U+12288" }

\* str::trim: without the leading and trailing characters of White_Space.
RECURSIVE TrimEnd(_)
TrimEnd(s) ==
    IF Len(s) > 0 /\ s[Len(s)] \in WhiteSpace
    THEN TrimEnd(SubSeq(s, 1, Len(s) - 1))
    ELSE s
RECURSIVE TrimStart(_)
TrimStart(s) ==
    IF Len(s) > 0 /\ s[1] \in WhiteSpace THEN TrimStart(Tail(s)) ELSE s
Trim(s) == TrimStart(TrimEnd(s))

\* rule _: zero or more whitespace characters; the position after them.
whitespace(s, p) == SkipClass(s, p, WhitespaceChars, Len(s))

\* A greedy repetition of a character class, min to max times.
Run(class, min, max) == [class |-> class, min |-> min, max |-> max]

\* A sequence of greedy repetitions matched from p, with no way back into a
\* repetition: the position after each of them, after ends; <<>> when one of
\* them finds fewer characters than its minimum.
RECURSIVE match_runs(_, _, _, _)
match_runs(s, p, runs, ends) ==
    IF runs = <<>> THEN ends
    ELSE Only({
        IF q - p < Head(runs).min THEN <<>>
        ELSE match_runs(s, q, Tail(runs), Append(ends, q))
        : q \in {SkipClass(s, p, Head(runs).class, Head(runs).max)} })

\* rule identifier with * for +: one character is enough.
identifier_one_character(s, p) ==
    Only({ IF e = <<>> THEN Fail ELSE Match(e[2], SubSeq(s, p, e[2] - 1))
           : e \in {match_runs(s, p, <<Run(IdentifierStart, 1, 1),
                                      Run(IdentifierRest, 0, Len(s))>>, <<>>)} })

\* rule identifier: a letter or underscore, then one or more letters, digits
\* or underscores.
identifier(s, p) ==
    Only({ IF e = <<>> THEN Fail ELSE Match(e[2], SubSeq(s, p, e[2] - 1))
           : e \in {match_runs(s, p, <<Run(IdentifierStart, 1, 1),
                                      Run(IdentifierRest, 1, Len(s))>>, <<>>)} })

\* rule comparison_op.
comparison_op(s, p) ==
    IF Lit(s, p, <<"e", "q">>) THEN Match(p + 2, "Equal")
    ELSE IF Lit(s, p, <<"n", "e">>) THEN Match(p + 2, "NotEqual")
    ELSE IF Lit(s, p, <<"g", "t">>) THEN Match(p + 2, "GreaterThan")
    ELSE IF Lit(s, p, <<"g", "e">>) THEN Match(p + 2, "GreaterOrEqual")
    ELSE IF Lit(s, p, <<"l", "t">>) THEN Match(p + 2, "LessThan")
    ELSE IF Lit(s, p, <<"l", "e">>) THEN Match(p + 2, "LessOrEqual")
    ELSE IF Lit(s, p, <<"h", "a", "s">>) THEN Match(p + 3, "Has")
    ELSE Fail

\* rule lambda_method.
lambda_method(s, p) ==
    IF Lit(s, p, <<"a", "n", "y">>) THEN Match(p + 3, "Any")
    ELSE IF Lit(s, p, <<"a", "l", "l">>) THEN Match(p + 3, "All")
    ELSE Fail

\* rule alias_expr.
alias_expr(s, p) ==
    IF ~Lit(s, p, <<"@">>) THEN Fail
    ELSE Only({ IF i.m THEN Match(i.pos, Ok(Alias(<<"@">> \o i.val))) ELSE Fail
                : i \in {identifier(s, p + 1)} })

\* One letter, in either case.
Letter(s, p, lower, upper) == p <= Len(s) /\ s[p] \in {lower, upper}

\* rule bool_value.
bool_value(s, p) ==
    IF /\ Letter(s, p, "t", "T") /\ Letter(s, p + 1, "r", "R")
       /\ Letter(s, p + 2, "u", "U") /\ Letter(s, p + 3, "e", "E")
    THEN Match(p + 4, Value_Bool(TRUE))
    ELSE IF /\ Letter(s, p, "f", "F") /\ Letter(s, p + 1, "a", "A")
            /\ Letter(s, p + 2, "l", "L") /\ Letter(s, p + 3, "s", "S")
            /\ Letter(s, p + 4, "e", "E")
    THEN Match(p + 5, Value_Bool(FALSE))
    ELSE Fail

\* rule null_value.
null_value(s, p) ==
    IF /\ Letter(s, p, "n", "N") /\ Letter(s, p + 1, "u", "U")
       /\ Letter(s, p + 2, "l", "L") /\ Letter(s, p + 3, "l", "L")
    THEN Match(p + 4, Value_Null)
    ELSE Fail

\* into_iter().collect::<Result<Vec<_>, _>>(): the first Err, in order, or
\* the values.
Collect(results) ==
    IF \E i \in 1..Len(results) : ~results[i].ok
    THEN results[CHOOSE i \in 1..Len(results) :
                    /\ ~results[i].ok
                    /\ \A j \in 1..(i - 1) : results[j].ok]
    ELSE Ok([i \in 1..Len(results) |-> results[i].val])

DigitChars == <<"0", "1", "2", "3", "4", "5", "6", "7", "8", "9">>
DigitValue(c) == (CHOOSE i \in 1..10 : DigitChars[i] = c) - 1

\* The number a run of decimal digits denotes.
RECURSIVE DigitsToInt(_)
DigitsToInt(ds) ==
    IF ds = <<>> THEN 0
    ELSE 10 * DigitsToInt(SubSeq(ds, 1, Len(ds) - 1)) + DigitValue(ds[Len(ds)])

\* The digits of a natural number of any size, without leading zeros.
RECURSIVE BigUint_digits(_)
BigUint_digits(ds) ==
    IF Len(ds) > 1 /\ Head(ds) = "0" THEN BigUint_digits(Tail(ds)) ELSE ds

\* BigDecimal::from_str of digits with an optional fraction: the unscaled
\* integer, of any size and kept as its decimal digits, and the scale (the
\* number of fraction digits).
BigDecimal_from_str(int_digits, frac_digits) ==
    Ok([int |-> BigUint_digits(int_digits \o frac_digits), scale |-> Len(frac_digits)])

\* The body of rule number_value.
number_action(n) == IF n.ok THEN Ok(Value_Number(n.val)) ELSE Err("ParsingNumber")

\* rule number_value: digits, then optionally a point and digits.
number_value(s, p) ==
    Only({
        IF i = <<>> THEN Fail
        ELSE Only({
            IF f = <<>>
            THEN Match(i[1], number_action(
                     BigDecimal_from_str(SubSeq(s, p, i[1] - 1), <<>>)))
            ELSE Match(f[2], number_action(
                     BigDecimal_from_str(SubSeq(s, p, i[1] - 1),
                                         SubSeq(s, f[1], f[2] - 1))))
            : f \in {match_runs(s, i[1], <<Run({"."}, 1, 1),
                                          Run(Digit, 0, Len(s))>>, <<>>)} })
        : i \in {match_runs(s, p, <<Run(Digit, 1, Len(s))>>, <<>>)} })

HexChars == <<"0", "1", "2", "3", "4", "5", "6", "7", "8", "9",
              "a", "b", "c", "d", "e", "f">>
HexUpperChars == <<"0", "1", "2", "3", "4", "5", "6", "7", "8", "9",
                   "A", "B", "C", "D", "E", "F">>
HexValue(c) == (CHOOSE i \in 1..16 : HexChars[i] = c \/ HexUpperChars[i] = c) - 1

\* The largest Unicode scalar value, and the surrogate range that is none.
MaxCodePoint == 1114111
SurrogateFirst == 55296
SurrogateLast == 57343

\* u32::from_str_radix(sequence, 16), kept at MaxCodePoint + 1 once above it.
RECURSIVE HexToCodePoint(_)
HexToCodePoint(hs) ==
    IF hs = <<>> THEN 0
    ELSE Only({ IF 16 * hi + HexValue(hs[Len(hs)]) > MaxCodePoint
                THEN MaxCodePoint + 1
                ELSE 16 * hi + HexValue(hs[Len(hs)])
                : hi \in {HexToCodePoint(SubSeq(hs, 1, Len(hs) - 1))} })

\* The printable ASCII characters, from code point 32; the grave accent (96),
\* which no string of this notation can hold, is written U+96.
PrintableAscii ==
    <<" ", "!", "\"", "#", "$", "%", "&", "'", "(", ")", "*", "+", ",", "-", ".", "/",
      "0", "1", "2", "3", "4", "5", "6", "7", "8", "9", ":", ";", "<", "=", ">", "?",
      "@", "A", "B", "C", "D", "E", "F", "G", "H", "I", "J", "K", "L", "M", "N", "O",
      "P", "Q", "R", "S", "T", "U", "V", "W", "X", "Y", "Z", "[", "\\", "]", "^", "_",
      "U+96", "a", "b", "c", "d", "e", "f", "g", "h", "i", "j", "k", "l", "m", "n", "o",
      "p", "q", "r", "s", "t", "u", "v", "w", "x", "y", "z", "{", "|", "}", "~">>

\* char::from_u32: the character of a scalar value; one outside the table is
\* written U+n.
char_from_u32(n) ==
    IF n > MaxCodePoint \/ (n >= SurrogateFirst /\ n <= SurrogateLast)
    THEN Err("ParsingUnicodeCodePoint")
    ELSE IF n >= 32 /\ n <= 126 THEN Ok(PrintableAscii[n - 31])
    ELSE IF n = 9 THEN Ok("\t")
    ELSE IF n = 10 THEN Ok("\n")
    ELSE IF n = 13 THEN Ok("\r")
    ELSE Ok("U+" \o ToString(n))

\* rule escape_character, after the backslash.
escape_character(s, p) ==
    IF Lit(s, p, <<"'">>) THEN Match(p + 1, Ok("'"))
    ELSE IF Lit(s, p, <<"n">>) THEN Match(p + 1, Ok("\n"))
    ELSE IF Lit(s, p, <<"r">>) THEN Match(p + 1, Ok("\r"))
    ELSE IF Lit(s, p, <<"t">>) THEN Match(p + 1, Ok("\t"))
    ELSE IF Lit(s, p, <<"\\">>) THEN Match(p + 1, Ok("\\"))
    ELSE Only({
        IF e = <<>> THEN Fail
        ELSE Match(e[2], char_from_u32(HexToCodePoint(SubSeq(s, p + 1, e[2] - 1))))
        : e \in {match_runs(s, p, <<Run({"u"}, 1, 1), Run(HexDigit, 1, 8)>>, <<>>)} })

\* rule quote_escaped_string_content: an escape, or any character but a quote.
quote_escaped_string_content_doubled(s, p) ==
    Only({
        IF e.m THEN e
        ELSE IF Lit(s, p, <<"'", "'">>) THEN Match(p + 2, Ok("'"))
        ELSE IF p <= Len(s) /\ s[p] # "'" THEN Match(p + 1, Ok(s[p]))
        ELSE Fail
        : e \in {IF Lit(s, p, <<"\\">>) THEN escape_character(s, p + 1) ELSE Fail} })
quote_escaped_string_content(s, p) ==
    Only({
        IF e.m THEN e
        ELSE IF p <= Len(s) /\ s[p] # "'" THEN Match(p + 1, Ok(s[p]))
        ELSE Fail
        : e \in {IF Lit(s, p, <<"\\">>) THEN escape_character(s, p + 1) ELSE Fail} })

\* quote_escaped_string_content()*: the contents matched from p on, after acc.
RECURSIVE string_contents(_, _, _)
string_contents(s, p, acc) ==
    Only({
        IF c.m THEN string_contents(s, c.pos, Append(acc, c.val))
        ELSE Match(p, acc)
        : c \in {quote_escaped_string_content(s, p)} })

\* The body of rule string_value.
string_action(chars) == IF chars.ok THEN Ok(Value_String(chars.val)) ELSE chars

\* rule string_value.
string_value(s, p) ==
    IF ~Lit(s, p, <<"'">>) THEN Fail
    ELSE Only({
        IF Lit(s, cs.pos, <<"'">>)
        THEN Match(cs.pos + 1, string_action(Collect(cs.val)))
        ELSE Fail
        : cs \in {string_contents(s, p + 1, <<>>)} })

\* The lowercase hexadecimal digit of a hexadecimal digit.
LowerHex(c) == HexChars[HexValue(c) + 1]

\* Uuid::parse_str of a hyphenated text, as its Display writes it back:
\* lowercase, hyphenated.
Uuid_parse_str(id) ==
    Ok([i \in 1..Len(id) |-> IF id[i] = "-" THEN "-" ELSE LowerHex(id[i])])

\* The body of rule uuid_value.
uuid_action(id) == IF id.ok THEN Ok(Value_Uuid(id.val)) ELSE Err("ParsingUuid")

\* rule hex, repeated exactly n times.
hex(n) == Run(HexDigit, n, n)

\* rule uuid_value: groups of 8, 4, 4, 4 and 12 hexadecimal digits.
uuid_value(s, p) ==
    Only({
        IF e = <<>> THEN Fail
        ELSE Match(e[9], uuid_action(Uuid_parse_str(SubSeq(s, p, e[9] - 1))))
        : e \in {match_runs(s, p, <<hex(8), Run({"-"}, 1, 1), hex(4), Run({"-"}, 1, 1),
                                   hex(4), Run({"-"}, 1, 1), hex(4), Run({"-"}, 1, 1),
                                   hex(12)>>, <<>>)} })

IsLeapYear(y) == (y % 4 = 0 /\ y % 100 # 0) \/ y % 400 = 0
DaysInMonth(y, m) ==
    IF m = 2 THEN (IF IsLeapYear(y) THEN 29 ELSE 28)
    ELSE IF m \in {4, 6, 9, 11} THEN 30 ELSE 31

\* NaiveDate::parse_from_str(d, "%Y-%m-%d") of the three numbers.
NaiveDate_parse_from_str(y, m, d) ==
    IF m >= 1 /\ m <= 12 /\ d >= 1 /\ d <= DaysInMonth(y, m)
    THEN Ok([year |-> y, month |-> m, day |-> d])
    ELSE Err("ParsingDate")

\* rule date: YYYY-MM-DD.
date(s, p) ==
    Only({
        IF e = <<>> THEN Fail
        ELSE Match(e[5], NaiveDate_parse_from_str(
                             DigitsToInt(SubSeq(s, p, e[1] - 1)),
                             DigitsToInt(SubSeq(s, e[2], e[3] - 1)),
                             DigitsToInt(SubSeq(s, e[4], e[5] - 1))))
        : e \in {match_runs(s, p, <<Run(Digit, 4, 4), Run({"-"}, 1, 1),
                                   Run(Digit, 2, 2), Run({"-"}, 1, 1),
                                   Run(Digit, 2, 2)>>, <<>>)} })

\* rule date_value.
date_value(s, p) ==
    Only({ IF ~d.m THEN Fail
           ELSE Match(d.pos, IF d.val.ok THEN Ok(Value_Date(d.val.val)) ELSE d.val)
           : d \in {date(s, p)} })

NanosPerSecond == 1000000000

\* The nanoseconds a fraction of 1 to 9 digits denotes (%.f).
RECURSIVE FractionToNanos(_)
FractionToNanos(ds) ==
    IF Len(ds) >= 9 THEN DigitsToInt(SubSeq(ds, 1, 9))
    ELSE FractionToNanos(Append(ds, "0"))

\* NaiveTime::parse_from_str with %H:%M, %H:%M:%S or %H:%M:%S%.f: the hour,
\* the minute, the second and the nanoseconds.  A second of 60 is kept as
\* second 59 with the nanoseconds raised by one second.
NaiveTime_parse_from_str(h, m, sc, n) ==
    IF h <= 23 /\ m <= 59 /\ sc <= 60
    THEN Ok([hour |-> h, minute |-> m,
             second |-> IF sc = 60 THEN 59 ELSE sc,
             nano |-> IF sc = 60 THEN NanosPerSecond + n ELSE n])
    ELSE Err("ParsingTime")

\* The body of rule time, on the positions after the hour, its colon and the
\* minute (hm), after the colon and the second (sec) and after the point and
\* the fraction (ms), the last two <<>> when absent: without the second the
\* fraction is matched and dropped.
time_action(s, p, hm, sec, ms) ==
    NaiveTime_parse_from_str(
        DigitsToInt(SubSeq(s, p, hm[1] - 1)),
        DigitsToInt(SubSeq(s, hm[2], hm[3] - 1)),
        IF sec = <<>> THEN 0 ELSE DigitsToInt(SubSeq(s, sec[1], sec[2] - 1)),
        IF sec = <<>> \/ ms = <<>> THEN 0
        ELSE FractionToNanos(SubSeq(s, ms[1], ms[2] - 1)))

\* The fraction of rule time, from p, and the rule's match.
time_fraction(s, p, hm, sec, after_s) ==
    Only({
        Match(IF ms = <<>> THEN after_s ELSE ms[2], time_action(s, p, hm, sec, ms))
        : ms \in {match_runs(s, after_s, <<Run({"."}, 1, 1), Run(Digit, 1, 9)>>, <<>>)} })

\* rule time: HH:MM, then optional :SS, then an optional fraction.
time(s, p) ==
    Only({
        IF hm = <<>> THEN Fail
        ELSE Only({
            time_fraction(s, p, hm, sec, IF sec = <<>> THEN hm[3] ELSE sec[2])
            : sec \in {match_runs(s, hm[3], <<Run({":"}, 1, 1), Run(Digit, 2, 2)>>, <<>>)} })
        : hm \in {match_runs(s, p, <<Run(Digit, 1, 2), Run({":"}, 1, 1),
                                    Run(Digit, 2, 2)>>, <<>>)} })

\* rule time_value.
time_value(s, p) ==
    Only({ IF ~t.m THEN Fail
           ELSE Match(t.pos, IF t.val.ok THEN Ok(Value_Time(t.val.val)) ELSE t.val)
           : t \in {time(s, p)} })

SecondsPerDay == 86400

\* FixedOffset::from_str of a sign, the hours and the minutes: the offset
\* east of UTC, in seconds.
FixedOffset_from_str(sign, h, m) ==
    IF m <= 59 /\ h * 3600 + m * 60 < SecondsPerDay
    THEN Ok(IF sign = "-" THEN 0 - (h * 3600 + m * 60) ELSE h * 3600 + m * 60)
    ELSE Err("ParsingTimeZone")

\* The second and third alternatives of rule timezone_offset: a sign with
\* HH:MM or HHMM, or else a sign with HH.
timezone_offset_signed(s, p) ==
    Only({
        IF full # <<>>
        THEN Match(full[4], FixedOffset_from_str(
                                s[p], DigitsToInt(SubSeq(s, p + 1, full[2] - 1)),
                                DigitsToInt(SubSeq(s, full[3], full[4] - 1))))
        ELSE Only({
            IF hours = <<>> THEN Fail
            ELSE Match(hours[2], FixedOffset_from_str(
                                     s[p], DigitsToInt(SubSeq(s, p + 1, hours[2] - 1)), 0))
            : hours \in {match_runs(s, p, <<Run({"-", "+"}, 1, 1),
                                           Run(Digit, 2, 2)>>, <<>>)} })
        : full \in {match_runs(s, p, <<Run({"-", "+"}, 1, 1), Run(Digit, 2, 2),
                                      Run({":"}, 0, 1), Run(Digit, 2, 2)>>, <<>>)} })

\* rule timezone_offset: Z, or a sign with HH:MM, HHMM or HH.
timezone_offset(s, p) ==
    IF Lit(s, p, <<"Z">>) THEN Match(p + 1, Ok(0))
    ELSE timezone_offset_signed(s, p)

TimezoneNameStart == Lower \cup Upper \cup {"-", "_", "/", "+"}
TimezoneNameRest == TimezoneNameStart \cup Digit

\* The named zones of chrono_tz::Tz: every name of the time zone database
\* (release 2023c), with the place of its table in Timespans; zones that
\* keep the same time share a table.
NamedZones ==
    { <<"Africa/Abidjan", 1>>,
      <<"Africa/Accra", 2>>,
      <<"Africa/Addis_Ababa", 3>>,
      <<"Africa/Algiers", 4>>,
      <<"Africa/Asmara", 5>>,
      <<"Africa/Asmera", 6>>,
      <<"Africa/Bamako", 7>>,
      <<"Africa/Bangui", 8>>,
      <<"Africa/Banjul", 9>>,
      <<"Africa/Bissau", 10>>,
      <<"Africa/Blantyre", 11>>,
      <<"Africa/Brazzaville", 12>>,
      <<"Africa/Bujumbura", 13>>,
      <<"Africa/Cairo", 14>>,
      <<"Africa/Casablanca", 15>>,
      <<"Africa/Ceuta", 16>>,
      <<"Africa/Conakry", 17>>,
      <<"Africa/Dakar", 18>>,
      <<"Africa/Dar_es_Salaam", 19>>,
      <<"Africa/Djibouti", 20>>,
      <<"Africa/Douala", 21>>,
      <<"Africa/El_Aaiun", 22>>,
      <<"Africa/Freetown", 23>>,
      <<"Africa/Gaborone", 24>>,
      <<"Africa/Harare", 25>>,
      <<"Africa/Johannesburg", 26>>,
      <<"Africa/Juba", 27>>,
      <<"Africa/Kampala", 28>>,
      <<"Africa/Khartoum", 29>>,
      <<"Africa/Kigali", 30>>,
      <<"Africa/Kinshasa", 31>>,
      <<"Africa/Lagos", 32>>,
      <<"Africa/Libreville", 33>>,
      <<"Africa/Lome", 34>>,
      <<"Africa/Luanda", 35>>,
      <<"Africa/Lubumbashi", 36>>,
      <<"Africa/Lusaka", 37>>,
      <<"Africa/Malabo", 38>>,
      <<"Africa/Maputo", 39>>,
      <<"Africa/Maseru", 40>>,
      <<"Africa/Mbabane", 41>>,
      <<"Africa/Mogadishu", 42>>,
      <<"Africa/Monrovia", 43>>,
      <<"Africa/Nairobi", 6>>,
      <<"Africa/Ndjamena", 44>>,
      <<"Africa/Niamey", 45>>,
      <<"Africa/Nouakchott", 46>>,
      <<"Africa/Ouagadougou", 47>>,
      <<"Africa/Porto-Novo", 48>>,
      <<"Africa/Sao_Tome", 49>>,
      <<"Africa/Timbuktu", 1>>,
      <<"Africa/Tripoli", 50>>,
      <<"Africa/Tunis", 51>>,
      <<"Africa/Windhoek", 52>>,
      <<"America/Adak", 53>>,
      <<"America/Anchorage", 54>>,
      <<"America/Anguilla", 55>>,
      <<"America/Antigua", 56>>,
      <<"America/Araguaina", 57>>,
      <<"America/Argentina/Buenos_Aires", 58>>,
      <<"America/Argentina/Catamarca", 59>>,
      <<"America/Argentina/ComodRivadavia", 59>>,
      <<"America/Argentina/Cordoba", 60>>,
      <<"America/Argentina/Jujuy", 61>>,
      <<"America/Argentina/La_Rioja", 62>>,
      <<"America/Argentina/Mendoza", 63>>,
      <<"America/Argentina/Rio_Gallegos", 64>>,
      <<"America/Argentina/Salta", 65>>,
      <<"America/Argentina/San_Juan", 66>>,
      <<"America/Argentina/San_Luis", 67>>,
      <<"America/Argentina/Tucuman", 68>>,
      <<"America/Argentina/Ushuaia", 69>>,
      <<"America/Aruba", 70>>,
      <<"America/Asuncion", 71>>,
      <<"America/Atikokan", 72>>,
      <<"America/Atka", 53>>,
      <<"America/Bahia", 73>>,
      <<"America/Bahia_Banderas", 74>>,
      <<"America/Barbados", 75>>,
      <<"America/Belem", 76>>,
      <<"America/Belize", 77>>,
      <<"America/Blanc-Sablon", 78>>,
      <<"America/Boa_Vista", 79>>,
      <<"America/Bogota", 80>>,
      <<"America/Boise", 81>>,
      <<"America/Buenos_Aires", 58>>,
      <<"America/Cambridge_Bay", 82>>,
      <<"America/Campo_Grande", 83>>,
      <<"America/Cancun", 84>>,
      <<"America/Caracas", 85>>,
      <<"America/Catamarca", 59>>,
      <<"America/Cayenne", 86>>,
      <<"America/Cayman", 87>>,
      <<"America/Chicago", 88>>,
      <<"America/Chihuahua", 89>>,
      <<"America/Ciudad_Juarez", 90>>,
      <<"America/Coral_Harbour", 91>>,
      <<"America/Cordoba", 60>>,
      <<"America/Costa_Rica", 92>>,
      <<"America/Creston", 93>>,
      <<"America/Cuiaba", 94>>,
      <<"America/Curacao", 95>>,
      <<"America/Danmarkshavn", 96>>,
      <<"America/Dawson", 97>>,
      <<"America/Dawson_Creek", 98>>,
      <<"America/Denver", 99>>,
      <<"America/Detroit", 100>>,
      <<"America/Dominica", 101>>,
      <<"America/Edmonton", 102>>,
      <<"America/Eirunepe", 103>>,
      <<"America/El_Salvador", 104>>,
      <<"America/Ensenada", 105>>,
      <<"America/Fort_Nelson", 106>>,
      <<"America/Fort_Wayne", 107>>,
      <<"America/Fortaleza", 108>>,
      <<"America/Glace_Bay", 109>>,
      <<"America/Godthab", 110>>,
      <<"America/Goose_Bay", 111>>,
      <<"America/Grand_Turk", 112>>,
      <<"America/Grenada", 113>>,
      <<"America/Guadeloupe", 114>>,
      <<"America/Guatemala", 115>>,
      <<"America/Guayaquil", 116>>,
      <<"America/Guyana", 117>>,
      <<"America/Halifax", 118>>,
      <<"America/Havana", 119>>,
      <<"America/Hermosillo", 120>>,
      <<"America/Indiana/Indianapolis", 107>>,
      <<"America/Indiana/Knox", 121>>,
      <<"America/Indiana/Marengo", 122>>,
      <<"America/Indiana/Petersburg", 123>>,
      <<"America/Indiana/Tell_City", 124>>,
      <<"America/Indiana/Vevay", 125>>,
      <<"America/Indiana/Vincennes", 126>>,
      <<"America/Indiana/Winamac", 127>>,
      <<"America/Indianapolis", 107>>,
      <<"America/Inuvik", 128>>,
      <<"America/Iqaluit", 129>>,
      <<"America/Jamaica", 130>>,
      <<"America/Jujuy", 61>>,
      <<"America/Juneau", 131>>,
      <<"America/Kentucky/Louisville", 132>>,
      <<"America/Kentucky/Monticello", 133>>,
      <<"America/Knox_IN", 121>>,
      <<"America/Kralendijk", 134>>,
      <<"America/La_Paz", 135>>,
      <<"America/Lima", 136>>,
      <<"America/Los_Angeles", 137>>,
      <<"America/Louisville", 132>>,
      <<"America/Lower_Princes", 134>>,
      <<"America/Maceio", 138>>,
      <<"America/Managua", 139>>,
      <<"America/Manaus", 140>>,
      <<"America/Marigot", 134>>,
      <<"America/Martinique", 141>>,
      <<"America/Matamoros", 142>>,
      <<"America/Mazatlan", 143>>,
      <<"America/Mendoza", 63>>,
      <<"America/Menominee", 144>>,
      <<"America/Merida", 145>>,
      <<"America/Metlakatla", 146>>,
      <<"America/Mexico_City", 147>>,
      <<"America/Miquelon", 148>>,
      <<"America/Moncton", 149>>,
      <<"America/Monterrey", 150>>,
      <<"America/Montevideo", 151>>,
      <<"America/Montreal", 152>>,
      <<"America/Montserrat", 153>>,
      <<"America/Nassau", 154>>,
      <<"America/New_York", 155>>,
      <<"America/Nipigon", 152>>,
      <<"America/Nome", 156>>,
      <<"America/Noronha", 157>>,
      <<"America/North_Dakota/Beulah", 158>>,
      <<"America/North_Dakota/Center", 159>>,
      <<"America/North_Dakota/New_Salem", 160>>,
      <<"America/Nuuk", 110>>,
      <<"America/Ojinaga", 161>>,
      <<"America/Panama", 91>>,
      <<"America/Pangnirtung", 129>>,
      <<"America/Paramaribo", 162>>,
      <<"America/Phoenix", 163>>,
      <<"America/Port-au-Prince", 164>>,
      <<"America/Port_of_Spain", 165>>,
      <<"America/Porto_Acre", 166>>,
      <<"America/Porto_Velho", 167>>,
      <<"America/Puerto_Rico", 134>>,
      <<"America/Punta_Arenas", 168>>,
      <<"America/Rainy_River", 169>>,
      <<"America/Rankin_Inlet", 170>>,
      <<"America/Recife", 171>>,
      <<"America/Regina", 172>>,
      <<"America/Resolute", 173>>,
      <<"America/Rio_Branco", 166>>,
      <<"America/Rosario", 60>>,
      <<"America/Santa_Isabel", 105>>,
      <<"America/Santarem", 174>>,
      <<"America/Santiago", 175>>,
      <<"America/Santo_Domingo", 176>>,
      <<"America/Sao_Paulo", 177>>,
      <<"America/Scoresbysund", 178>>,
      <<"America/Shiprock", 99>>,
      <<"America/Sitka", 179>>,
      <<"America/St_Barthelemy", 134>>,
      <<"America/St_Johns", 180>>,
      <<"America/St_Kitts", 181>>,
      <<"America/St_Lucia", 182>>,
      <<"America/St_Thomas", 183>>,
      <<"America/St_Vincent", 184>>,
      <<"America/Swift_Current", 185>>,
      <<"America/Tegucigalpa", 186>>,
      <<"America/Thule", 187>>,
      <<"America/Thunder_Bay", 152>>,
      <<"America/Tijuana", 105>>,
      <<"America/Toronto", 152>>,
      <<"America/Tortola", 188>>,
      <<"America/Vancouver", 189>>,
      <<"America/Virgin", 134>>,
      <<"America/Whitehorse", 190>>,
      <<"America/Winnipeg", 169>>,
      <<"America/Yakutat", 191>>,
      <<"America/Yellowknife", 102>>,
      <<"Antarctica/Casey", 192>>,
      <<"Antarctica/Davis", 193>>,
      <<"Antarctica/DumontDUrville", 194>>,
      <<"Antarctica/Macquarie", 195>>,
      <<"Antarctica/Mawson", 196>>,
      <<"Antarctica/McMurdo", 197>>,
      <<"Antarctica/Palmer", 198>>,
      <<"Antarctica/Rothera", 199>>,
      <<"Antarctica/South_Pole", 200>>,
      <<"Antarctica/Syowa", 201>>,
      <<"Antarctica/Troll", 202>>,
      <<"Antarctica/Vostok", 203>>,
      <<"Arctic/Longyearbyen", 204>>,
      <<"Asia/Aden", 205>>,
      <<"Asia/Almaty", 206>>,
      <<"Asia/Amman", 207>>,
      <<"Asia/Anadyr", 208>>,
      <<"Asia/Aqtau", 209>>,
      <<"Asia/Aqtobe", 210>>,
      <<"Asia/Ashgabat", 211>>,
      <<"Asia/Ashkhabad", 211>>,
      <<"Asia/Atyrau", 212>>,
      <<"Asia/Baghdad", 213>>,
      <<"Asia/Bahrain", 214>>,
      <<"Asia/Baku", 215>>,
      <<"Asia/Bangkok", 216>>,
      <<"Asia/Barnaul", 217>>,
      <<"Asia/Beirut", 218>>,
      <<"Asia/Bishkek", 219>>,
      <<"Asia/Brunei", 220>>,
      <<"Asia/Calcutta", 221>>,
      <<"Asia/Chita", 222>>,
      <<"Asia/Choibalsan", 223>>,
      <<"Asia/Chongqing", 224>>,
      <<"Asia/Chungking", 224>>,
      <<"Asia/Colombo", 225>>,
      <<"Asia/Dacca", 226>>,
      <<"Asia/Damascus", 227>>,
      <<"Asia/Dhaka", 226>>,
      <<"Asia/Dili", 228>>,
      <<"Asia/Dubai", 229>>,
      <<"Asia/Dushanbe", 230>>,
      <<"Asia/Famagusta", 231>>,
      <<"Asia/Gaza", 232>>,
      <<"Asia/Harbin", 224>>,
      <<"Asia/Hebron", 233>>,
      <<"Asia/Ho_Chi_Minh", 234>>,
      <<"Asia/Hong_Kong", 235>>,
      <<"Asia/Hovd", 236>>,
      <<"Asia/Irkutsk", 237>>,
      <<"Asia/Istanbul", 238>>,
      <<"Asia/Jakarta", 239>>,
      <<"Asia/Jayapura", 240>>,
      <<"Asia/Jerusalem", 241>>,
      <<"Asia/Kabul", 242>>,
      <<"Asia/Kamchatka", 243>>,
      <<"Asia/Karachi", 244>>,
      <<"Asia/Kashgar", 245>>,
      <<"Asia/Kathmandu", 246>>,
      <<"Asia/Katmandu", 246>>,
      <<"Asia/Khandyga", 247>>,
      <<"Asia/Kolkata", 221>>,
      <<"Asia/Krasnoyarsk", 248>>,
      <<"Asia/Kuala_Lumpur", 249>>,
      <<"Asia/Kuching", 250>>,
      <<"Asia/Kuwait", 251>>,
      <<"Asia/Macao", 252>>,
      <<"Asia/Macau", 252>>,
      <<"Asia/Magadan", 253>>,
      <<"Asia/Makassar", 254>>,
      <<"Asia/Manila", 255>>,
      <<"Asia/Muscat", 256>>,
      <<"Asia/Nicosia", 257>>,
      <<"Asia/Novokuznetsk", 258>>,
      <<"Asia/Novosibirsk", 259>>,
      <<"Asia/Omsk", 260>>,
      <<"Asia/Oral", 261>>,
      <<"Asia/Phnom_Penh", 262>>,
      <<"Asia/Pontianak", 263>>,
      <<"Asia/Pyongyang", 264>>,
      <<"Asia/Qatar", 265>>,
      <<"Asia/Qostanay", 266>>,
      <<"Asia/Qyzylorda", 267>>,
      <<"Asia/Rangoon", 268>>,
      <<"Asia/Riyadh", 269>>,
      <<"Asia/Saigon", 234>>,
      <<"Asia/Sakhalin", 270>>,
      <<"Asia/Samarkand", 271>>,
      <<"Asia/Seoul", 272>>,
      <<"Asia/Shanghai", 224>>,
      <<"Asia/Singapore", 273>>,
      <<"Asia/Srednekolymsk", 274>>,
      <<"Asia/Taipei", 275>>,
      <<"Asia/Tashkent", 276>>,
      <<"Asia/Tbilisi", 277>>,
      <<"Asia/Tehran", 278>>,
      <<"Asia/Tel_Aviv", 241>>,
      <<"Asia/Thimbu", 279>>,
      <<"Asia/Thimphu", 279>>,
      <<"Asia/Tokyo", 280>>,
      <<"Asia/Tomsk", 281>>,
      <<"Asia/Ujung_Pandang", 254>>,
      <<"Asia/Ulaanbaatar", 282>>,
      <<"Asia/Ulan_Bator", 282>>,
      <<"Asia/Urumqi", 245>>,
      <<"Asia/Ust-Nera", 283>>,
      <<"Asia/Vientiane", 284>>,
      <<"Asia/Vladivostok", 285>>,
      <<"Asia/Yakutsk", 286>>,
      <<"Asia/Yangon", 268>>,
      <<"Asia/Yekaterinburg", 287>>,
      <<"Asia/Yerevan", 288>>,
      <<"Atlantic/Azores", 289>>,
      <<"Atlantic/Bermuda", 290>>,
      <<"Atlantic/Canary", 291>>,
      <<"Atlantic/Cape_Verde", 292>>,
      <<"Atlantic/Faeroe", 293>>,
      <<"Atlantic/Faroe", 293>>,
      <<"Atlantic/Jan_Mayen", 204>>,
      <<"Atlantic/Madeira", 294>>,
      <<"Atlantic/Reykjavik", 295>>,
      <<"Atlantic/South_Georgia", 296>>,
      <<"Atlantic/St_Helena", 297>>,
      <<"Atlantic/Stanley", 298>>,
      <<"Australia/ACT", 299>>,
      <<"Australia/Adelaide", 300>>,
      <<"Australia/Brisbane", 301>>,
      <<"Australia/Broken_Hill", 302>>,
      <<"Australia/Canberra", 299>>,
      <<"Australia/Currie", 303>>,
      <<"Australia/Darwin", 304>>,
      <<"Australia/Eucla", 305>>,
      <<"Australia/Hobart", 303>>,
      <<"Australia/LHI", 306>>,
      <<"Australia/Lindeman", 307>>,
      <<"Australia/Lord_Howe", 306>>,
      <<"Australia/Melbourne", 308>>,
      <<"Australia/NSW", 299>>,
      <<"Australia/North", 304>>,
      <<"Australia/Perth", 309>>,
      <<"Australia/Queensland", 301>>,
      <<"Australia/South", 300>>,
      <<"Australia/Sydney", 299>>,
      <<"Australia/Tasmania", 303>>,
      <<"Australia/Victoria", 308>>,
      <<"Australia/West", 309>>,
      <<"Australia/Yancowinna", 302>>,
      <<"Brazil/Acre", 166>>,
      <<"Brazil/DeNoronha", 157>>,
      <<"Brazil/East", 177>>,
      <<"Brazil/West", 140>>,
      <<"CET", 310>>,
      <<"CST6CDT", 311>>,
      <<"Canada/Atlantic", 118>>,
      <<"Canada/Central", 169>>,
      <<"Canada/Eastern", 152>>,
      <<"Canada/Mountain", 102>>,
      <<"Canada/Newfoundland", 180>>,
      <<"Canada/Pacific", 189>>,
      <<"Canada/Saskatchewan", 172>>,
      <<"Canada/Yukon", 190>>,
      <<"Chile/Continental", 175>>,
      <<"Chile/EasterIsland", 312>>,
      <<"Cuba", 119>>,
      <<"EET", 313>>,
      <<"EST", 314>>,
      <<"EST5EDT", 315>>,
      <<"Egypt", 14>>,
      <<"Eire", 316>>,
      <<"Etc/GMT", 317>>,
      <<"Etc/GMT+0", 317>>,
      <<"Etc/GMT+1", 318>>,
      <<"Etc/GMT+10", 319>>,
      <<"Etc/GMT+11", 320>>,
      <<"Etc/GMT+12", 321>>,
      <<"Etc/GMT+2", 322>>,
      <<"Etc/GMT+3", 323>>,
      <<"Etc/GMT+4", 324>>,
      <<"Etc/GMT+5", 314>>,
      <<"Etc/GMT+6", 325>>,
      <<"Etc/GMT+7", 326>>,
      <<"Etc/GMT+8", 327>>,
      <<"Etc/GMT+9", 328>>,
      <<"Etc/GMT-0", 317>>,
      <<"Etc/GMT-1", 329>>,
      <<"Etc/GMT-10", 330>>,
      <<"Etc/GMT-11", 331>>,
      <<"Etc/GMT-12", 332>>,
      <<"Etc/GMT-13", 333>>,
      <<"Etc/GMT-14", 334>>,
      <<"Etc/GMT-2", 335>>,
      <<"Etc/GMT-3", 336>>,
      <<"Etc/GMT-4", 337>>,
      <<"Etc/GMT-5", 338>>,
      <<"Etc/GMT-6", 339>>,
      <<"Etc/GMT-7", 340>>,
      <<"Etc/GMT-8", 341>>,
      <<"Etc/GMT-9", 342>>,
      <<"Etc/GMT0", 317>>,
      <<"Etc/Greenwich", 317>>,
      <<"Etc/UCT", 317>>,
      <<"Etc/UTC", 317>>,
      <<"Etc/Universal", 317>>,
      <<"Etc/Zulu", 317>>,
      <<"Europe/Amsterdam", 343>>,
      <<"Europe/Andorra", 344>>,
      <<"Europe/Astrakhan", 345>>,
      <<"Europe/Athens", 346>>,
      <<"Europe/Belfast", 347>>,
      <<"Europe/Belgrade", 348>>,
      <<"Europe/Berlin", 204>>,
      <<"Europe/Bratislava", 349>>,
      <<"Europe/Brussels", 350>>,
      <<"Europe/Bucharest", 351>>,
      <<"Europe/Budapest", 352>>,
      <<"Europe/Busingen", 353>>,
      <<"Europe/Chisinau", 354>>,
      <<"Europe/Copenhagen", 355>>,
      <<"Europe/Dublin", 316>>,
      <<"Europe/Gibraltar", 356>>,
      <<"Europe/Guernsey", 357>>,
      <<"Europe/Helsinki", 358>>,
      <<"Europe/Isle_of_Man", 359>>,
      <<"Europe/Istanbul", 238>>,
      <<"Europe/Jersey", 360>>,
      <<"Europe/Kaliningrad", 361>>,
      <<"Europe/Kiev", 362>>,
      <<"Europe/Kirov", 363>>,
      <<"Europe/Kyiv", 362>>,
      <<"Europe/Lisbon", 364>>,
      <<"Europe/Ljubljana", 365>>,
      <<"Europe/London", 347>>,
      <<"Europe/Luxembourg", 366>>,
      <<"Europe/Madrid", 367>>,
      <<"Europe/Malta", 368>>,
      <<"Europe/Mariehamn", 358>>,
      <<"Europe/Minsk", 369>>,
      <<"Europe/Monaco", 370>>,
      <<"Europe/Moscow", 371>>,
      <<"Europe/Nicosia", 257>>,
      <<"Europe/Oslo", 372>>,
      <<"Europe/Paris", 373>>,
      <<"Europe/Podgorica", 348>>,
      <<"Europe/Prague", 349>>,
      <<"Europe/Riga", 374>>,
      <<"Europe/Rome", 375>>,
      <<"Europe/Samara", 376>>,
      <<"Europe/San_Marino", 375>>,
      <<"Europe/Sarajevo", 377>>,
      <<"Europe/Saratov", 378>>,
      <<"Europe/Simferopol", 379>>,
      <<"Europe/Skopje", 380>>,
      <<"Europe/Sofia", 381>>,
      <<"Europe/Stockholm", 382>>,
      <<"Europe/Tallinn", 383>>,
      <<"Europe/Tirane", 384>>,
      <<"Europe/Tiraspol", 354>>,
      <<"Europe/Ulyanovsk", 385>>,
      <<"Europe/Uzhgorod", 362>>,
      <<"Europe/Vaduz", 386>>,
      <<"Europe/Vatican", 375>>,
      <<"Europe/Vienna", 387>>,
      <<"Europe/Vilnius", 388>>,
      <<"Europe/Volgograd", 389>>,
      <<"Europe/Warsaw", 390>>,
      <<"Europe/Zagreb", 391>>,
      <<"Europe/Zaporozhye", 362>>,
      <<"Europe/Zurich", 353>>,
      <<"GB", 347>>,
      <<"GB-Eire", 347>>,
      <<"GMT", 317>>,
      <<"GMT+0", 317>>,
      <<"GMT-0", 317>>,
      <<"GMT0", 317>>,
      <<"Greenwich", 317>>,
      <<"HST", 319>>,
      <<"Hongkong", 235>>,
      <<"Iceland", 1>>,
      <<"Indian/Antananarivo", 392>>,
      <<"Indian/Chagos", 393>>,
      <<"Indian/Christmas", 394>>,
      <<"Indian/Cocos", 395>>,
      <<"Indian/Comoro", 396>>,
      <<"Indian/Kerguelen", 397>>,
      <<"Indian/Mahe", 398>>,
      <<"Indian/Maldives", 399>>,
      <<"Indian/Mauritius", 400>>,
      <<"Indian/Mayotte", 401>>,
      <<"Indian/Reunion", 402>>,
      <<"Iran", 278>>,
      <<"Israel", 241>>,
      <<"Jamaica", 130>>,
      <<"Japan", 280>>,
      <<"Kwajalein", 403>>,
      <<"Libya", 50>>,
      <<"MET", 310>>,
      <<"MST", 326>>,
      <<"MST7MDT", 404>>,
      <<"Mexico/BajaNorte", 105>>,
      <<"Mexico/BajaSur", 143>>,
      <<"Mexico/General", 147>>,
      <<"NZ", 200>>,
      <<"NZ-CHAT", 405>>,
      <<"Navajo", 99>>,
      <<"PRC", 224>>,
      <<"PST8PDT", 406>>,
      <<"Pacific/Apia", 407>>,
      <<"Pacific/Auckland", 200>>,
      <<"Pacific/Bougainville", 408>>,
      <<"Pacific/Chatham", 405>>,
      <<"Pacific/Chuuk", 409>>,
      <<"Pacific/Easter", 312>>,
      <<"Pacific/Efate", 410>>,
      <<"Pacific/Enderbury", 411>>,
      <<"Pacific/Fakaofo", 412>>,
      <<"Pacific/Fiji", 413>>,
      <<"Pacific/Funafuti", 414>>,
      <<"Pacific/Galapagos", 415>>,
      <<"Pacific/Gambier", 416>>,
      <<"Pacific/Guadalcanal", 417>>,
      <<"Pacific/Guam", 418>>,
      <<"Pacific/Honolulu", 419>>,
      <<"Pacific/Johnston", 419>>,
      <<"Pacific/Kanton", 411>>,
      <<"Pacific/Kiritimati", 420>>,
      <<"Pacific/Kosrae", 421>>,
      <<"Pacific/Kwajalein", 403>>,
      <<"Pacific/Majuro", 422>>,
      <<"Pacific/Marquesas", 423>>,
      <<"Pacific/Midway", 424>>,
      <<"Pacific/Nauru", 425>>,
      <<"Pacific/Niue", 426>>,
      <<"Pacific/Norfolk", 427>>,
      <<"Pacific/Noumea", 428>>,
      <<"Pacific/Pago_Pago", 429>>,
      <<"Pacific/Palau", 430>>,
      <<"Pacific/Pitcairn", 431>>,
      <<"Pacific/Pohnpei", 432>>,
      <<"Pacific/Ponape", 417>>,
      <<"Pacific/Port_Moresby", 433>>,
      <<"Pacific/Rarotonga", 434>>,
      <<"Pacific/Saipan", 435>>,
      <<"Pacific/Samoa", 429>>,
      <<"Pacific/Tahiti", 436>>,
      <<"Pacific/Tarawa", 437>>,
      <<"Pacific/Tongatapu", 438>>,
      <<"Pacific/Truk", 433>>,
      <<"Pacific/Wake", 439>>,
      <<"Pacific/Wallis", 440>>,
      <<"Pacific/Yap", 433>>,
      <<"Poland", 390>>,
      <<"Portugal", 364>>,
      <<"ROC", 275>>,
      <<"ROK", 272>>,
      <<"Singapore", 273>>,
      <<"Turkey", 238>>,
      <<"UCT", 317>>,
      <<"US/Alaska", 54>>,
      <<"US/Aleutian", 53>>,
      <<"US/Arizona", 163>>,
      <<"US/Central", 88>>,
      <<"US/East-Indiana", 107>>,
      <<"US/Eastern", 155>>,
      <<"US/Hawaii", 419>>,
      <<"US/Indiana-Starke", 121>>,
      <<"US/Michigan", 100>>,
      <<"US/Mountain", 99>>,
      <<"US/Pacific", 137>>,
      <<"US/Samoa", 429>>,
      <<"UTC", 317>>,
      <<"Universal", 317>>,
      <<"W-SU", 371>>,
      <<"WET", 441>>,
      <<"Zulu", 317>> }

\* The tables of the named zones, one a line: the offset east of UTC in
\* seconds before the first change, and the changes in order of time, each
\* of 17 digits: six of the UTC day number of the change plus 100000, five
\* of its second of the day, and six of the offset from then on plus 100000.
\* The tables run to the end of 2099; a zone keeps its last offset from then
\* on.
Timespans ==
    << <<(0 - 968), "07881500968100000">>,
       <<(0 - 52), "08021600052100000081699000001012000817370600010000008198107200101200082103060001000000823460720010120008246806000100000082711072001012000828330600010000008307607200101200083198060001000000834420720010120008356406000100000083807072001012000839290600010000008417207200101200084294060001000000845370720010120008465906000100000084903072001012000850250600010000008526807200101200085390060001000000856330720010120008575506000100000085998072001012000861200600010000008636407200101200086486060001000000867290720010120008685106000100000087094072001012000872160600010000008745907200101200087581060001000000878250720010120008794706000100000088190072001012000883120600010000008855507200101200088677060001000000889200720010120008904206000100000089163072001012000894080600010000008952807200101200089773060001000000898110000010180009123884600100000092938072001018000930600540010000009330307200101800093425054001000000936690720010180009379105400100000094034072001018000941560540010000009439907200101800094521054001000000947640720010180009488605400100000">>,
       <<9288, "0634757711210932008770577080110800">>,
       <<732, "071219856681005610785188583910000008044182800103600080550828001000000807248280010360008092182800100000081074828001036000812858280010000008143182800103600081649828001000000817818280010360008203382800100000082175828001036000822748280010000008893082800103600088999000001000000890970720010360009059603600107200090784000001036000909600360010720009112682800103600091512828001000000949140000010360009754582800100000100479828001036001006338280010000010268200000103600103004000001072001031860360010360010358482800100000103767000001036001039560360010000010413800000103600">>,
       <<9332, "0707807706810932008770577080110800">>,
       <<8836, "0774747756410900008484077400110800085393756001090000879467740010990008998476500110800">>,
       <<(0 - 1920), "078815019201000000869070000009640009651803600100000">>,
       <<4460, "07881481940103600">>,
       <<(0 - 3996), "0865760399609640008980403600100000">>,
       <<(0 - 3740), "0788150360009640010182603600100000">>,
       <<8400, "078653780001084700797257793010846008374477940107200">>,
       <<3668, "07881482732103600">>,
       <<7048, "07078079352107200">>,
       <<7509, "0747057889110720008923779200110800089315756001072000895117920011080008966575600107200089862792001108000900717560010720009022779200110800090441756001072000905937920011080009080775600107200090973792001108000911727560010720009538079200110800095524756001072000957367920011080009588975600107200096101828001108000962540000010720009646782800110800096620000001072000968328280011080009698500000107200097197828001108000973500000010720009756282800110800097715000001072000979288280011080009808100000107200098293828001108000984460000010720009865882800110800098812000001072000990238280011080009917700000107200099389828001108000995430000010720009975482800110800099908000001072001001198280011080010027300000107200100484828001108001006380000010720010085082800110800101004000001072001012158280011080010136900000107200101580828001108001017340000010720010194582800110800102099000001072001023118280011080010246500000107200102676828001108001028300000010720010304182800110800103195000001072001034068280011080010356000000107200103772828001108001039260000010720010413782800110800104291000001072001045878280011080010465600000107200104939828001108001050210000010720010523382800110800105387000001072001055988280011080010575200000107200105963828001108001061170000010720010632882800110800106482000001072001066948280011080010684800000107200107064828001108001072130000010720010742482800110800107578000001072001077898280011080010794300000107200108155828001108001083090000010720010852082800110800108674000001072001088858280011080010903900000107200109247792001108001094017560010720010961179200110800109765756001072001099757920011080011012975600107200110339792001108001104937560010720011071079200110800110864756001072001110747920011080011122875600107200111438792001108001115927560010720011180279200110800111956756001072001121667920011080011232075600107200112537792001108001126917560010720011290179200110800113055756001072001132657920011080011341275600107200113629792001108001137627560010720011399379200110800114119756001072001143577920011080011447675600107200114728792001108001148317560010720011486179200110800114882756001072001162057920011080011624775600107200116282792001108001163387560010720011947479200110800119656756001072001198387920011080012002775600107200120202792001108001203917560010720012056679200110800120755756001072001209377920011080012111975600107200121301792001108001214837560010720012166579200110800121847756001072001220297920011080012221875600107200122393792001108001225827560010720012276479200110800122946756001072001231287920011080012331075600107200123492792001108001236747560010720012385679200110800124038756001072001242207920011080012440975600107200124584792001108001247737560010720012495579200110800125137756001072001253197920011080012550175600107200125683792001108001258657560010720012604779200110800126236756001072001264117920011080012660075600107200126775792001108001269647560010720012714679200110800127328756001072001275107920011080012769275600107200127874792001108001280567560010720012823879200110800128427756001072001286027920011080012879175600107200128973792001108001291557560010720012933779200110800129519756001072001297017920011080012988375600107200130065792001108001302547560010720013042979200110800130618756001072001307937920011080013098275600107200131164792001108001313467560010720013152879200110800131710756001072001318927920011080013207475600107200132256792001108001324457560010720013262079200110800132809756001072001329917920011080013317375600107200133355792001108001335377560010720013371979200110800133901756001072001340837920011080013426575600107200134447792001108001346367560010720013481179200110800135000756001072001351827920011080013536475600107200135546792001108001357287560010720013591079200110800136092756001072001362747920011080013646375600107200136638792001108001368277560010720013700279200110800137191756001072001373737920011080013755575600107200137737792001108001379197560010720013810179200110800138283756001072001384657920011080013865475600107200138829792001108001390187560010720013920079200110800139382756001072001395647920011080013974675600107200139928792001108001401107560010720014029279200110800140481756001072001406567920011080014084575600107200141020792001108001412097560010720014139179200110800141573756001072001417557920011080014193775600107200142119792001108001423017560010720014248379200110800142672756001072001428477920011080014303675600107200143218792001108001434007560010720014358279200110800143764756001072001439467920011080014412875600107200144310792001108001444927560010720014467479200110800144863756001072001450387920011080014522775600107200145409792001108001455917560010720014577379200110800145955756001072001461377920011080014631975600107200146501792001108001466907560010720014686579200110800147054756001072001472297920011080014741875600107200">>,
       <<(0 - 1820), "07947901820100000088931000001036000889988280010000008909700000103600091189828001000000928560000010360009299582800100000099057432001036000991768280010000010163500000103600101703828001000001023120000010360010240382800100000102677000001036001028268280010000010307300000103600103136828001000001051880000010360010584382800100000114031000001036001141228280010000011439600000103600114476828001000001147310000010360011482882800100000115067000001036001151858280010000011545907200103600115541072001000001155720720010360011561307200100000115823072001036001158930720010000011592707200103600116005072001000001161590720010360011624907200100000116284072001036001163690720010000011652307200103600116600072001000001166350720010360011673307200100000116887072001036001169570720010000011699207200103600117104072001000001172510720010360011730707200100000117349072001036001174680720010000011761507200103600117664072001000001176990720010360011802107200100000118056072001036001183710720010000011841307200103600118728072001000001187630720010360011907807200100000119120072001036001194350720010000011947007200103600119792072001000001198270720010360012014207200100000120184072001036001204990720010000012053407200103600120856072001000001208910720010360012120607200100000121248072001036001215630720010000012159807200103600121913072001000001219550720010360012227007200100000122305072001036001226270720010000012266207200103600122977072001000001230190720010360012333407200100000123369072001036001236840720010000012372607200103600124041072001000001240830720010360012439807200100000124433072001036001247480720010000012479007200103600125105072001000001251400720010360012546207200100000125497072001036001258120720010000012585407200103600126169072001000001262040720010360012651907200100000126561072001036001268760720010000012691807200103600127233072001000001272680720010360012758307200100000127625072001036001279400720010000012797507200103600128297072001000001283320720010360012864707200100000128689072001036001290040720010000012903907200103600129354072001000001293960720010360012971107200100000129753072001036001300680720010000013010307200103600130418072001000001304600720010360013077507200100000130810072001036001311320720010000013116707200103600131482072001000001315240720010360013183907200100000131874072001036001321890720010000013223107200103600132546072001000001325880720010360013290307200100000132938072001036001332530720010000013329507200103600133610072001000001336450720010360013396707200100000134002072001036001343170720010000013435907200103600134674072001000001347090720010360013502407200100000135066072001036001353810720010000013542307200103600135738072001000001357730720010360013608807200100000136130072001036001364450720010000013648007200103600136802072001000001368370720010360013715207200100000137194072001036001375090720010000013754407200103600137859072001000001379010720010360013821607200100000138258072001036001385730720010000013860807200103600138923072001000001389650720010360013928007200100000139315072001036001396370720010000013967207200103600139987072001000001400290720010360014034407200100000140379072001036001406940720010000014073607200103600141051072001000001410860720010360014140807200100000141443072001036001417580720010000014180007200103600142115072001000001421500720010360014247207200100000142507072001036001428220720010000014286407200103600">>,
       <<(0 - 1276), "07479800000100000081132828001036000812867920010000008330482800103600083476000001000000840358280010360008420400000100000084392828001036000845680000010000008476400000103600084939000001000000990574320010360009917682800100000101635000001036001017038280010000010231200000103600102403828001000001026770000010360010282682800100000103073000001036001031368280010000010518800000103600105932036001072001061140360010360010629603600107200106478036001036001066600360010720010684203600103600107024036001072001072060360010360010738803600107200107577036001036001077590360010720010794103600103600108123036001072001083050360010360010848703600107200108669036001036001088510360010720010903303600103600109215036001072001093970360010360010958603600107200109796036001036001099500360010720011016003600103600110314036001072001105240360010360011067803600107200110895036001036001110420360010720011125903600103600111406036001072001116230360010360011177703600107200111987036001036001121410360010720011235103600103600112505036001072001127220360010360011286903600107200113086036001036001132330360010720011345003600103600113597036001072001138140360010360011396803600107200114178036001036001143320360010720011454203600103600114696036001072001149130360010360011506003600107200115277036001036001154240360010720011564103600103600115795036001072001160050360010360011615903600107200116369036001036001165230360010720011673303600103600116887036001072001171040360010360011725103600107200117468036001036001176150360010720011783203600103600117986036001072001181960360010360011835003600107200118560036001036001187140360010720011893103600103600119078036001072001192950360010360011944203600107200119659036001036001198130360010720012002303600103600120177036001072001203870360010360012054103600107200120751036001036001209050360010720012112203600103600121269036001072001214860360010360012163303600107200121850036001036001220040360010720012221403600103600122368036001072001225780360010360012273203600107200122949036001036001230960360010720012331303600103600123460036001072001236770360010360012382403600107200124041036001036001241950360010720012440503600103600124559036001072001247690360010360012492303600107200125140036001036001252870360010720012550403600103600125651036001072001258680360010360012602203600107200126232036001036001263860360010720012659603600103600126750036001072001269600360010360012711403600107200127331036001036001274780360010720012769503600103600127842036001072001280590360010360012821303600107200128423036001036001285770360010720012878703600103600128941036001072001291580360010360012930503600107200129522036001036001296690360010720012988603600103600130040036001072001302500360010360013040403600107200130614036001036001307680360010720013097803600103600131132036001072001313490360010360013149603600107200131713036001036001318600360010720013207703600103600132231036001072001324410360010360013259503600107200132805036001036001329590360010720013317603600103600133323036001072001335400360010360013368703600107200133904036001036001340510360010720013426803600103600134422036001072001346320360010360013478603600107200134996036001036001351500360010720013536703600103600135514036001072001357310360010360013587803600107200136095036001036001362490360010720013645903600103600136613036001072001368230360010360013697703600107200137187036001036001373410360010720013755803600103600137705036001072001379220360010360013806903600107200138286036001036001384400360010720013865003600103600138804036001072001390140360010360013916803600107200139385036001036001395320360010720013974903600103600139896036001072001401130360010360014026703600107200140477036001036001406310360010720014084103600103600140995036001072001412050360010360014135903600107200141576036001036001417230360010720014194003600103600142087036001072001423040360010360014245803600107200142668036001036001428220360010720014303203600103600143186036001072001434030360010360014355003600107200143767036001036001439140360010720014413103600103600144278036001072001444950360010360014464903600107200144859036001036001450130360010720014522303600103600145377036001072001455940360010360014574103600107200145958036001036001461050360010720014632203600103600146476036001072001466860360010360014684003600107200147050036001036001472040360010720014741403600103600">>,
       <<(0 - 3292), "078815032921000000869070000009640009634703600100000">>,
       <<(0 - 4184), "0788150418409640008955903600100000">>,
       <<9428, "085754769721108000919637560010990009671276500110800">>,
       <<10356, "07863076044110800">>,
       <<2328, "07881484072103600">>,
       <<(0 - 3168), "0868510316809640010229503600100000102312000001036001024038280010000010267700000103600102826828001000001030730000010360010313682800100000114031000001036001141228280010000011439600000103600114476828001000001147310000010360011482882800100000115067000001036001151858280010000011545907200103600115541072001000001155720720010360011561307200100000115823072001036001158930720010000011592707200103600116005072001000001161590720010360011624907200100000116284072001036001163690720010000011652307200103600116600072001000001166350720010360011673307200100000116887072001036001169570720010000011699207200103600117104072001000001172510720010360011730707200100000117349072001036001174680720010000011761507200103600117664072001000001176990720010360011802107200100000118056072001036001183710720010000011841307200103600118728072001000001187630720010360011907807200100000119120072001036001194350720010000011947007200103600119792072001000001198270720010360012014207200100000120184072001036001204990720010000012053407200103600120856072001000001208910720010360012120607200100000121248072001036001215630720010000012159807200103600121913072001000001219550720010360012227007200100000122305072001036001226270720010000012266207200103600122977072001000001230190720010360012333407200100000123369072001036001236840720010000012372607200103600124041072001000001240830720010360012439807200100000124433072001036001247480720010000012479007200103600125105072001000001251400720010360012546207200100000125497072001036001258120720010000012585407200103600126169072001000001262040720010360012651907200100000126561072001036001268760720010000012691807200103600127233072001000001272680720010360012758307200100000127625072001036001279400720010000012797507200103600128297072001000001283320720010360012864707200100000128689072001036001290040720010000012903907200103600129354072001000001293960720010360012971107200100000129753072001036001300680720010000013010307200103600130418072001000001304600720010360013077507200100000130810072001036001311320720010000013116707200103600131482072001000001315240720010360013183907200100000131874072001036001321890720010000013223107200103600132546072001000001325880720010360013290307200100000132938072001036001332530720010000013329507200103600133610072001000001336450720010360013396707200100000134002072001036001343170720010000013435907200103600134674072001000001347090720010360013502407200100000135066072001036001353810720010000013542307200103600135738072001000001357730720010360013608807200100000136130072001036001364450720010000013648007200103600136802072001000001368370720010360013715207200100000137194072001036001375090720010000013754407200103600137859072001000001379010720010360013821607200100000138258072001036001385730720010000013860807200103600138923072001000001389650720010360013928007200100000139315072001036001396370720010000013967207200103600139987072001000001400290720010360014034407200100000140379072001036001406940720010000014073607200103600141051072001000001410860720010360014140807200100000141443072001036001417580720010000014180007200103600142115072001000001421500720010360014247207200100000142507072001036001428220720010000014286407200103600">>,
       <<(0 - 3180), "079362031800964000864550360009760008657602400096400086729036000976000869410240009640008709403600097600087306024000964000874590360009760008767202400096400087825036000976000880370240009640008819003600097600088402024000964000885550360009760008882802400096400088920036000976000889240240009640008974803600100000">>,
       <<6220, "06895480180105400075586810001072000903990000011080009058082800107200">>,
       <<7452, "07558678948107200">>,
       <<6720, "071548796801054000755868100010720009003500000110800090216828001072000903990000011080009058082800107200">>,
       <<7588, "0857547881210720010011979200110800100286756001072001004837920011080010065175600107200100849792001108001010177560010720010121379200110800101382756001072001015777920011080010174775600107200101941792001108001021127560010720010230579200110800102478756001072001026697920011080010284375600107200103040792001108001032087560010720010340479200110800103573756001072001037687920011080010393975600107200104132792001108001043047560010720010449679200110800104669756001072001048607920011080010503475600107200105231792001108001054007560010720010559579200110800105765756001072001109713600011080011865875600107200">>,
       <<7780, "08484078620110800085389756001090000919637740010990009525176500110800">>,
       <<7808, "0857547859210720010011979200110800100286756001072001004837920011080010065175600107200100849792001108001010177560010720010121379200110800101382756001072001015777920011080010174775600107200101941792001108001021127560010720010230579200110800102478756001072001026697920011080010284375600107200103040792001108001032087560010720010340479200110800103573756001072001037687920011080010393975600107200104132792001108001043047560010720010449679200110800104669756001072001048607920011080010503475600107200105231792001108001054007560010720010559579200110800105765756001072001109713600011080011747075600107200">>,
       <<7216, "08736679184107200">>,
       <<3672, "07364982728103600">>,
       <<815, "07643985585100000077536000001008150795458558510180008161484600103600">>,
       <<2268, "07881484132103600">>,
       <<292, "07187686108100000">>,
       <<3176, "0715108322410312407881482800103600">>,
       <<6592, "0736497980810360008185182800107200">>,
       <<6788, "07558679612107200">>,
       <<2108, "0788148429210000009779100000103600">>,
       <<7820, "07558678580107200">>,
       <<6600, "075586798001072000903990000011080009058082800107200">>,
       <<7464, "07558678936107200">>,
       <<10888, "072180755121108000857547560010900009525177400110800">>,
       <<(0 - 2588), "0814310258809733010073602670100000">>,
       <<3612, "078814827881036001035728280010720010371879200103600">>,
       <<508, "078814858920964000869070360010000009634700000103600">>,
       <<(0 - 3828), "078815038281000000869070000009640009667903600100000">>,
       <<(0 - 364), "07881500364100000">>,
       <<628, "0788148577210000008690700000103600">>,
       <<1616, "06858884784097795078815000001000001175320360010360011789703600100000">>,
       <<3164, "081736832361036000933460360010720009342479200103600094072036001072000941557920010360009479282800107200094885792001036000959818280010720010438279200103600104472828001072001046557920010360010483782800107200105020792001036001052038280010720010538679200103600105573828001072001057517920010360010593682800107200106118792001036001062988280010720010648179200103600106664828001072001068477920010360010702982800107200107212792001036001074278280010720010976879200103600109954828001072001156540000010360011579300000107200">>,
       <<2444, "06762483956100561078518858391036000887817920010720008899879200103600089097792001072000896857920010360008983982800107200090078036001036000902250360010720009024400000103600090252036001072000904140000010360009059603600107200090783792001036000909600360010720009112679200103600102675828001072001028228280010360010304182800107200103194828001036001067258280010720010684182800103600107023828001072001072058280010360010742482800107200107576828001036001129038280010720011305600000103600113233036001072001134500360010360011359703600107200113814036001036001139680360010720011417803600103600">>,
       <<4104, "07154882296105400075586810001072000900350000011080009021682800107200108844792001036001090120360010720010922200000103600109376036001072001095930000010360010974003600107200109957000001036001101110360010720011032100000103600110475036001072001106850000010360011083903600107200111049000001036001112030360010720011141300000103600111567036001072001117840000010360011193103600107200112148000001036001123020360010720011251200000103600112666036001072001128760000010360011303003600107200113240000001036001133940360010720011360400000103600113758036001072001139750000010360011412903600107200114339000001036001144930360010720011470300000103600114857036001072001150670000010360011522103600107200115431000001036001155850360010720011580200000103600115949036001072001161660000010360011632003600107200116530000001036001166840360010720011689400000103600117048036001072001172580000010360011741203600107200">>,
       <<44002, "06267101873057602074664855980604000898124680006400009114143200060400099751468000640000999334320006040010011546800064000100297432000604001004794680006400010066843200060400100850468000640001010324320006040010121446800064000101396432000604001014664680006400010176043200060400101879468000640001021244320006040010230646800064000102495432000604001026704680006400010285943200060400103041468000640001032234320006040010340546800064000103587432000604001037694680006400010395143200060400104133468000640001043154320006040010449746800064000104686432000604001048614680006400010523243200067600105414396000640001055964320006760010577839600064000105960432000676001061423960006400010630343200067600106506396000640001066674320006760010687739600064000107031432000676001072413960006400010739543200067600107605396000640001077664320006760010796939600064000108130432000676001083333960006400010849443200067600108704396000640001088584320006760010906839600064000109222432000676001094323960006400010959343200067600109796396000640001099574320006760011016039600064000110321432000676001105243960006400011068543200067600110895396000640001110494320006760011125939600064000111413432000676001116233960006400011178443200067600111987396000640001121484320006760011235139600064000112512432000676001127223960006400011287643200067600113086396000640001132404320006760011345039600064000113583432000676001138213960006400011394743200067600114185396000640001143114320006760011454939600064000114682432000676001149203960006400011504643200067600115284396000640001154104320006760011564839600064000115774432000676001160123960006400011613843200067600116376396000640001165024320006760011674039600064000116873432000676001171113960006400011723743200067600117475396000640001176014320006760011783939600064000117965432000676001182033960006400011832943200067600118567396000640001187004320006760011893839600064000119064432000676001193023960006400011942843200067600119666396000640001197924320006760012003039600064000120156432000676001203943960006400012052043200067600120758396000640001208914320006760012112939600064000121255432000676001214933960006400012161943200067600121857396000640001219834320006760012222139600064000122347432000676001225853960006400012271843200067600122956396000640001230824320006760012332039600064000123446432000676001236843960006400012381043200067600124048396000640001241744320006760012441239600064000124538432000676001247763960006400012490943200067600125147396000640001252734320006760012551139600064000125637432000676001258753960006400012600143200067600126239396000640001263654320006760012660339600064000126729432000676001269673960006400012710043200067600127338396000640001274644320006760012770239600064000127828432000676001280663960006400012819243200067600128430396000640001285564320006760012879439600064000128927432000676001291653960006400012929143200067600129529396000640001296554320006760012989339600064000130019432000676001302573960006400013038343200067600130621396000640001307474320006760013098539600064000131118432000676001313563960006400013148243200067600131720396000640001318464320006760013208439600064000132210432000676001324483960006400013257443200067600132812396000640001329454320006760013318339600064000133309432000676001335473960006400013367343200067600133911396000640001340374320006760013427539600064000134401432000676001346393960006400013476543200067600135003396000640001351364320006760013537439600064000135500432000676001357383960006400013586443200067600136102396000640001362284320006760013646639600064000136592432000676001368303960006400013695643200067600137194396000640001373274320006760013756539600064000137691432000676001379293960006400013805543200067600138293396000640001384194320006760013865739600064000138783432000676001390213960006400013915443200067600139392396000640001395184320006760013975639600064000139882432000676001401203960006400014024643200067600140484396000640001406104320006760014084839600064000140974432000676001412123960006400014134543200067600141583396000640001417094320006760014194739600064000142073432000676001423113960006400014243743200067600142675396000640001428014320006760014303939600064000143172432000676001434103960006400014353643200067600143774396000640001439004320006760014413839600064000144264432000676001445023960006400014462843200067600144866396000640001449924320006760014523039600064000145363432000676001456013960006400014572743200067600145965396000640001460914320006760014632939600064000146455432000676001466933960006400014681943200067600147057396000640001471834320006760014742139600064000">>,
       <<50424, "06267101873064024074664791760640000898124320006760009114139600064000099751432000676000999333960006400010011543200067600100297396000640001004794320006760010066839600064000100850432000676001010323960006400010121443200067600101396396000640001014664320006760010176039600064000101879432000676001021243960006400010230643200067600102495396000640001026704320006760010285939600064000103041432000676001032233960006400010340543200067600103587396000640001037694320006760010395139600064000104133432000676001043153960006400010449743200067600104686396000640001048614320006760010523239600071200105414360000676001055963960007120010577836000067600105960396000712001061423600006760010630339600071200106506360000676001066673960007120010687736000067600107031396000712001072413600006760010739539600071200107605360000676001077663960007120010796936000067600108130396000712001083333600006760010849439600071200108704360000676001088583960007120010906836000067600109222396000712001094323600006760010959339600071200109796360000676001099573960007120011016036000067600110321396000712001105243600006760011068539600071200110895360000676001110493960007120011125936000067600111413396000712001116233600006760011178439600071200111987360000676001121483960007120011235136000067600112512396000712001127223600006760011287639600071200113086360000676001132403960007120011345036000067600113583396000712001138213600006760011394739600071200114185360000676001143113960007120011454936000067600114682396000712001149203600006760011504639600071200115284360000676001154103960007120011564836000067600115774396000712001160123600006760011613839600071200116376360000676001165023960007120011674036000067600116873396000712001171113600006760011723739600071200117475360000676001176013960007120011783936000067600117965396000712001182033600006760011832939600071200118567360000676001187003960007120011893836000067600119064396000712001193023600006760011942839600071200119666360000676001197923960007120012003036000067600120156396000712001203943600006760012052039600071200120758360000676001208913960007120012112936000067600121255396000712001214933600006760012161939600071200121857360000676001219833960007120012222136000067600122347396000712001225853600006760012271839600071200122956360000676001230823960007120012332036000067600123446396000712001236843600006760012381039600071200124048360000676001241743960007120012441236000067600124538396000712001247763600006760012490939600071200125147360000676001252733960007120012551136000067600125637396000712001258753600006760012600139600071200126239360000676001263653960007120012660336000067600126729396000712001269673600006760012710039600071200127338360000676001274643960007120012770236000067600127828396000712001280663600006760012819239600071200128430360000676001285563960007120012879436000067600128927396000712001291653600006760012929139600071200129529360000676001296553960007120012989336000067600130019396000712001302573600006760013038339600071200130621360000676001307473960007120013098536000067600131118396000712001313563600006760013148239600071200131720360000676001318463960007120013208436000067600132210396000712001324483600006760013257439600071200132812360000676001329453960007120013318336000067600133309396000712001335473600006760013367339600071200133911360000676001340373960007120013427536000067600134401396000712001346393600006760013476539600071200135003360000676001351363960007120013537436000067600135500396000712001357383600006760013586439600071200136102360000676001362283960007120013646636000067600136592396000712001368303600006760013695639600071200137194360000676001373273960007120013756536000067600137691396000712001379293600006760013805539600071200138293360000676001384193960007120013865736000067600138783396000712001390213600006760013915439600071200139392360000676001395183960007120013975636000067600139882396000712001401203600006760014024639600071200140484360000676001406103960007120014084836000067600140974396000712001412123600006760014134539600071200141583360000676001417093960007120014194736000067600142073396000712001423113600006760014243739600071200142675360000676001428013960007120014303936000067600143172396000712001434103600006760014353639600071200143774360000676001439003960007120014413836000067600144264396000712001445023600006760014462839600071200144866360000676001449923960007120014523036000067600145363396000712001456013600006760014572739600071200145965360000676001460913960007120014632936000067600146455396000712001466933600006760014681939600071200147057360000676001471833960007120014742136000067600">>,
       <<(0 - 15136), "07887615136085600">>,
       <<(0 - 14832), "0788761483208200009306018000085600">>,
       <<(0 - 11568), "079546115680892000860305040009280008621107200089200086396108000928000865760720008920009266410800092800092800108000892000930291080009280009315007200089200093394108000928000935160720008920009376010800092800093850072000892000977851080009280009786807200089200098204108000928000982630720008920009850810800092800098598072000892000988431080009280009896307200089200099208108000928000993290720008920010578410800092800105917072000892001061411080009280010625307200089200106506108000928001066110720008920010686310800092800106968072000892001072271080009280010734607200089200109418108000928001095370720008920010977510800092800109908072000892001101401080009280011028607200089200110510108000928001106430720008920011086710800092800111014072000892001112381080009280011137107200089200111609108000928001117350720008920011199410800092800112099072000892001156341080009280011575307200089200">>,
       <<(0 - 14028), "0725451402808459208185815408085600085724144000892000858451080008560008604214400089200086180108000856000864251440008920008654510800085600086790144000892000869101080008560008715514400089200087275108000856000875201440008920008764110800085600087886144000892000880061080008560008825114400089200088371108000856000886161440008920008873610800085600088981144000892000891021080008560008922414400089200089573108000856000896951440008920009035010800085600090425144000892000912931080008560009150714400089200097716108000856000977911440008920009786810800085600098096144000892000982331080008560009846114400089200098598108000856000988261440008920009899510800085600099177144000892000993661080008560009954814400089200099730108000856000999121440008920010148310800092800101581072000892001069091080009280010700307200089200107227108000928001073670720008920010759810800092800107731072000892001079621080009280010809507200089200108326108000928001084660720008920011387710800092800113954072000892001141711080009280011431807200089200">>,
       <<(0 - 15788), "0725451578808459208185815408085600085724144000892000858451080008560008604214400089200086180108000856000864251440008920008654510800085600086790144000892000869101080008560008715514400089200087275108000856000875201440008920008764110800085600087886144000892000880061080008560008825114400089200088371108000856000886161440008920008873610800085600088981144000892000891021080008560008922414400089200089573108000856000896951440008920009035010800085600090425144000892000912931080008560009150714400089200097716108000856000977911440008920009786810800085600098096144000892000982331080008560009846114400089200098598108000856000988261440008920009899510800085600099177144000892000993661080008560009954814400089200099730108000856000999121440008920010148310800092800101581072000892001069091080009280010700307200089200107227108000928001073670720008920010759810800092800107731072000856001079621440009280010809507200089200108326108000928001084660720008920011257010800085600112589144000892001138771080009280011395407200089200">>,
       <<(0 - 15408), "08185815408085600085724144000892000858451080008560008604214400089200086180108000856000864251440008920008654510800085600086790144000892000869101080008560008715514400089200087275108000856000875201440008920008764110800085600087886144000892000880061080008560008825114400089200088371108000856000886161440008920008873610800085600088981144000892000891021080008560008922414400089200089573108000856000896951440008920009035010800085600090425144000892000912931080008560009150714400089200097716108000856000977911440008920009786810800085600098096144000892000982331080008560009846114400089200098598108000856000988261440008920009899510800085600099177144000892000993661080008560009954814400089200099730108000856000999121440008920010148310800092800101581072000892001069091080009280010700307200089200107227108000928001073670720008920010759810800092800107731072000856001079621440009280010809507200089200108326108000928001084660720008920011387710800092800113954072000892001141711080009280011431807200089200">>,
       <<(0 - 15672), "072545156720845920818581540808560008572414400089200085845108000856000860421440008920008618010800085600086425144000892000865451080008560008679014400089200086910108000856000871551440008920008727510800085600087520144000892000876411080008560008788614400089200088006108000856000882511440008920008837110800085600088616144000892000887361080008560008898114400089200089102108000856000892241440008920008957310800085600089695144000892000903501080008560009042514400089200091293108000856000915071440008920009771610800085600097791144000892000978681080008560009809614400089200098233108000856000984611440008920009859810800085600098826144000892000989951080008560009917714400089200099366108000856000995481440008920009973010800085600099912144000892001014831080009280010158107200089200106909108000928001070030720008920010722710800092800107367072000856001076051440008920010774510800085600107948144000928001080950720008920010832610800092800108466072000892001138771080009280011395407200089200">>,
       <<(0 - 16044), "072545160440845920818581540808560008572414400089200085845108000856000860421440008920008618010800085600086425144000892000865451080008560008679014400089200086910108000856000871551440008920008727510800085600087520144000892000876411080008560008788614400089200088006108000856000882511440008920008837110800085600088616144000892000887361080008560008898114400089200089102108000856000892241440008920008957310800085600089695144000892000903501080008560009042514400089200091293108000856000915071440008920009771610800085600097791144000892000978681080008560009809614400089200098233108000856000984611440008920009859810800085600098826144000892000989951080008560009917714400089200099366108000856000995481440008920009973010800085600099912144000892001014831080009280010158107200089200106909108000928001070030720008920010722710800092800107367072000892001075981080009280010772907200085600107796144000892001079621080009280010809507200089200108326108000928001084660720008920011257010800085600112589144000892001138771080009280011395407200089200">>,
       <<(0 - 16516), "0725451651608459208185815408085600085724144000892000858451080008560008604214400089200086180108000856000864251440008920008654510800085600086790144000892000869101080008560008715514400089200087275108000856000875201440008920008764110800085600087886144000892000880061080008560008825114400089200088371108000856000886161440008920008873610800085600088981144000892000891021080008560008922414400089200089573108000856000896951440008920009035010800085600090425144000892000912931080008560009150714400089200097716108000856000977911440008920009786810800085600098096144000892000982331080008560009846114400089200098598108000856000988261440008920009899510800085600099177144000892000993661080008560009954814400089200099730108000856000999121440008920010148310800092800101581072000892001069091080009280010700307200089200107227108000928001073670720008560010759214400089200107729108000856001079571440008920010809510800085600108326144000928001084660720008920011256110800085600112687144000892001138771080009280011395407200089200">>,
       <<(0 - 16612), "0725451661208459208185815408085600085724144000892000858451080008560008604214400089200086180108000856000864251440008920008654510800085600086790144000892000869101080008560008715514400089200087275108000856000875201440008920008764110800085600087886144000892000880061080008560008825114400089200088371108000856000886161440008920008873610800085600088981144000892000891021080008560008922414400089200089573108000856000896951440008920009035010800085600090425144000892000912931080008560009150714400089200097716108000856000977911440008920009786810800085600098096144000892000982331080008560009846114400089200098598108000856000988261440008920009899510800085600099177144000892000993661080008560009954814400089200099730108000856000999121440008920010148310800092800101581072000892001069091080009280010700307200089200107227108000928001073670720008920010759810800092800107731072000892001079621080009280010809507200089200108326108000928001084660720008920011257010800085600112589144000892001138771080009280011395407200089200">>,
       <<(0 - 15700), "072545157000845920818581540808560008572414400089200085845108000856000860421440008920008618010800085600086425144000892000865451080008560008679014400089200086910108000856000871551440008920008727510800085600087520144000892000876411080008560008788614400089200088006108000856000882511440008920008837110800085600088616144000892000887361080008560008898114400089200089102108000856000892241440008920008957310800085600089695144000892000903501080008560009042514400089200091293108000856000915071440008920009771610800085600097791144000892000978681080008560009809614400089200098233108000856000984611440008920009859810800085600098826144000892000989951080008560009917714400089200099366108000856000995481440008920009973010800085600099912144000892001014831080009280010158107200089200106909108000928001070030720008920010722710800092800107367072000892001075981080009280010773107200085600107962144000928001080950720008920010832610800092800108466072000892001138771080009280011395407200089200">>,
       <<(0 - 16444), "072545164440845920818581540808560008572414400089200085845108000856000860421440008920008618010800085600086425144000892000865451080008560008679014400089200086910108000856000871551440008920008727510800085600087520144000892000876411080008560008788614400089200088006108000856000882511440008920008837110800085600088616144000892000887361080008560008898114400089200089102108000856000892241440008920008957310800085600089695144000892000903501080008560009042514400089200091293108000856000915071440008920009771610800085600097791144000892000978681080008560009809614400089200098233108000856000984611440008920009859810800085600098826144000892000989951080008560009917714400089200099366108000856000995481440008920009973010800085600099912144000892001014831080009280010158107200089200106909108000928001070030720008920010722710800092800107367072000892001075981080009280010772907200085600107796144000892001079621080009280010809507200089200108326108000928001084660720008920011256910800085600112624144000892001138771080009280011395407200089200">>,
       <<(0 - 15924), "072545159240845920818581540808560008572414400089200085845108000856000860421440008920008618010800085600086425144000892000865451080008560008679014400089200086910108000856000871551440008920008727510800085600087520144000892000876411080008560008788614400089200088006108000856000882511440008920008837110800085600088616144000892000887361080008560008898114400089200089102108000856000892241440008920008957310800085600089695144000892000903501080008560009042514400089200091293108000856000915071440008920009771610800085600097791144000892000978681080008560009809614400089200098233108000856000984611440008920009859810800085600098826144000892000989951080008560009917714400089200099366108000856000995481440008920009973010800085600099912144000892001014831080009280010158107200089200106909108000928001070030720008920010722710800092800107377072000856001075921440008920010772910800085600107821144000892001125691080008560011262414400089200113877108000928001138990720008920011394710800085600114164144000892001143111080008560011452814400089200">>,
       <<(0 - 15652), "07254515652084592081858154080856000857241440008920008584510800085600086042144000892000861801080008560008642514400089200086545108000856000867901440008920008691010800085600087155144000892000872751080008560008752014400089200087641108000856000878861440008920008800610800085600088251144000892000883711080008560008861614400089200088736108000856000889811440008920008910210800085600089224144000892000895731080008560008969514400089200090350108000856000904251440008920009129310800085600091507144000892000977161080008560009779114400089200097868108000856000980961440008920009823310800085600098461144000892000985981080008560009882614400089200098995108000856000991771440008920009936610800085600099548144000892000997301080008560009991214400089200101483108000928001015810720008920010690910800092800107003072000892001072271080009280010736707200089200107598108000928001077310720008560010796214400092800108095072000892001083261080009280010846607200089200112570108000856001125821440008920011387710800092800113954072000892001141711080009280011431807200089200">>,
       <<(0 - 16392), "0725451639208459208185815408085600085724144000892000858451080008560008604214400089200086180108000856000864251440008920008654510800085600086790144000892000869101080008560008715514400089200087275108000856000875201440008920008764110800085600087886144000892000880061080008560008825114400089200088371108000856000886161440008920008873610800085600088981144000892000891021080008560008922414400089200089573108000856000896951440008920009035010800085600090425144000892000912931080008560009150714400089200097716108000856000977911440008920009786810800085600098096144000892000982331080008560009846114400089200098598108000856000988261440008920009899510800085600099177144000892000993661080008560009954814400089200099730108000856000999121440008920010148310800092800101581072000892001069091080009280010700307200089200107227108000928001073670720008920010759810800092800107731072000892001079621080009280010809507200089200108326108000928001084660720008920011256810800085600112589144000892001138771080009280011395407200089200">>,
       <<(0 - 16824), "0788571682408380009817416200085600">>,
       <<(0 - 13840), "086037138400856001010041440008920010155110800085600102099144000892001022511080008560010246514400089200102616108000856001028301440008920010298110800085600103195144000892001033771080008560010356014400089200103743108000856001039261440008920010410810800085600104291144000892001044731080008560010465614400089200104838108000856001050211440008920010520410800085600105387144000892001055691080008560010575214400089200105934108000856001061171440008920010629910800085600106482144000892001066651080008560010684814400089200107030108000856001072341440008920010739510800085600107578144000892001077601080008560010794814400089200108095108000856001083131440008920010849010800085600108674144000892001088231080008560010903914400089200109187108000856001094041440008920010955610800085600109775144000892001099151080008560011013914400089200110286108000856001105031440008920011065710800085600110867144000892001110211080008560011123114400089200111385108000856001116021440008920011178410800085600111931144000892001121481080008560011230214400089200112512108000856001127081440008920011285510800085600113072144000892001132191080008560011343614400089200113583108000856001138071440008920011394710800085600114171144000892001143111080008560011453514400089200114710108000856001148851440008920011507410800085600115249144000892001154381080008560011562014400089200115788108000856001159841440008920011615210800085600116348144000892001165161080008560011671214400089200116887108000856001170761440008920011725110800085600117440144000892001176151080008560011781114400089200117979108000856001181751440008920011834310800085600118539144000892001187141080008560011890314400089200119078108000856001192671440008920011944210800085600119631144000892001198061080008560012000214400089200120170108000856001203661440008920012053410800085600120730144000892001209051080008560012109414400089200121269108000856001214581440008920012163310800085600121829144000892001219971080008560012219314400089200122361108000856001225571440008920012273210800085600122921144000892001230961080008560012328514400089200123460108000856001236491440008920012382410800085600124020144000892001241881080008560012438414400089200124552108000856001247481440008920012492310800085600125112144000892001252871080008560012547614400089200125651108000856001258471440008920012601510800085600126211144000892001263791080008560012657514400089200126743108000856001269391440008920012711410800085600127303144000892001274781080008560012766714400089200127842108000856001280381440008920012820610800085600128402144000892001285701080008560012876614400089200128941108000856001291301440008920012930510800085600129494144000892001296691080008560012985814400089200130033108000856001302291440008920013039710800085600130593144000892001307611080008560013095714400089200131132108000856001313211440008920013149610800085600131685144000892001318601080008560013205614400089200132224108000856001324201440008920013258810800085600132784144000892001329591080008560013314814400089200133323108000856001335121440008920013368710800085600133876144000892001340511080008560013424714400089200134415108000856001346111440008920013477910800085600134975144000892001351501080008560013533914400089200135514108000856001357031440008920013587810800085600136074144000892001362421080008560013643814400089200136606108000856001368021440008920013697010800085600137166144000892001373411080008560013753014400089200137705108000856001378941440008920013806910800085600138265144000892001384331080008560013862914400089200138797108000856001389931440008920013916810800085600139357144000892001395321080008560013972114400089200139896108000856001400851440008920014026010800085600140456144000892001406241080008560014082014400089200140988108000856001411841440008920014135910800085600141548144000892001417231080008560014191214400089200142087108000856001422831440008920014245110800085600142647144000892001428151080008560014301114400089200143186108000856001433751440008920014355010800085600143739144000892001439141080008560014410314400089200144278108000856001444741440008920014464210800085600144838144000892001450061080008560014520214400089200145377108000856001455661440008920014574110800085600145930144000892001461051080008560014630114400089200146469108000856001466651440008920014683310800085600147029144000892001471971080008560014739314400089200">>,
       <<(0 - 21988), "07260721988078400081110288000820000813062520007840008931421600082000">>,
       <<(0 - 9244), "07954609244089200086030504000928000862110720008920008639610800092800086576072000892000926641080009280009280010800089200093029108000928000931500720008920009339410800092800093516072000892000937601080009280009385007200089200097785108000928000978680720008920009820410800092800098263072000892000985081080009280009859807200089200098843108000928000989630720008920009920810800092800099329072000892001057841080009280010591707200089200106141108000928001062530720008920010650610800092800106611072000892001068631080009280010696807200089200107227108000928001073460720008920010759810800092800107717072000892001079621080009280010807407200089200108333108000928001084310720008920010869010800092800108816072000892001090541080009280010918007200089200109418108000928001095370720008920010977510800092800109908072000892001101401080009280011028607200089200110510108000928001106430720008920011086710800092800111014072000892001112381080009280011137107200089200111609108000928001117350720008920011199410800092800112099072000892001152631080009280011539607200089200">>,
       <<(0 - 25260), "082468252000748000844552160007840008570821600074800085876216000784000860282160007480008621125200078400089886216000748000923432520007120010000028800074800109593324000784001097962880007480010995732400078400110160288000748001103213240007840011052428800074800110685324000784001108952880007480011104932400078400111259288000748001114483240007840011159528800074800111784324000784001119872880007480011214832400078400112351288000748001125123240007840011272228800074800112876324000784001130862880007480011324032400078400113450288000748001136043240007840011381428800074800113975324000784001141782880007480011433932400078400114542288000748001147033240008200011491325200078400115067288000820001152772520007840011543128800082000115641252000784001158022880008200011600525200078400116166288000820001163692520007840011653028800082000116733252000784001168942880008200011710425200078400117258288000820001174682520007840011762228800082000117832252000784001179932880008200011819625200078400118357288000820001185602520007840011872128800082000118931252000784001190852880008200011929525200078400">>,
       <<(0 - 14309), "078689143090856000898811800008920009001521600085600090259180000892000903852160008560009060318000087400090756216000856001027192160008920010283118000085600103027216000892001031951800008560010339121600089200103559180000856001037622160008920010392018000085600">>,
       <<(0 - 11636), "0795461163608920008603050400092800086211072000892000863961080009280008657607200089200092664108000928000928001080008920009302910800092800093150072000892000933941080009280009351607200089200093760108000928000938500720008920009778510800092800097868072000892000982041080009280009826307200089200098508108000928000985980720008920009884310800092800098963072000892000992081080009280009932907200089200105784108000928001059170720008920010614110800092800106253072000892001065061080009280010661107200089200">>,
       <<(0 - 21168), "07890621168078400081285216000802000814111980007840008164921600080200081782198000784000820132160008020008214619800078400082377216000802000825101980007840008274821600080200082874198000784000831122160008020008323819800078400083476216000802000836091980007840008384021600080200083973198000784000842042160008020008433719800078400084568216000802000847011980007840008493921600080200085065198000784000853032160008020008542919800078400085667216000802000858001980007840008603121600080200086164198000784000863952160008020008652819800078400086766216000802000868921980007840008713021600080200087256198000784000874942160008020008762019800078400087858216000802000879911980007840008822221600080200088355198000784000885862160008020008871919800078400088957216000802000890831980007840008932121600080200089447198000784000896852160008020008981819800078400089951216000820000912181800007840009187621600080200092009198000784000922402160008020009237319800078400092604216000802000927371980007840009297521600080200093101198000784000933392160008020009346519800078400093703216000802000938361980007840009406721600080200094200198000784000944312160008020009456419800078400094795216000802000949281980007840009516621600080200095292198000784000955302160008020009565619800078400095894216000802000960271980007840009625821600080200096391198000784000966222160008020009675519800078400096993216000802000971191980007840009735721600080200097483198000784000977212160008020009784719800078400098085216000802000982181980007840009844921600080200098582198000784000988132160008020009894619800078400099184216000802000993101980007840010143421600082000101500180000784001047342160008200010479018000078400">>,
       <<(0 - 13708), "0685891370808560008111021600089200081306180000856000898122160008920009114118000085600">>,
       <<(0 - 14560), "079546145600856000860305400008920008621110800085600086396144000892000865761080008560009266414400089200092800144000856000930291440008920009315010800085600093394144000892000935161080008560009376014400089200093850108000856000977851440008920009786810800085600098204144000892000982631080008560009850814400089200098598108000856000988431440008920009896310800085600099208144000892000993291080008560010578414400089200105917108000856001061411440008920010625310800085600106506144000892001066111080008560011086714400089200111014108000856001112381440008920011124510800085600">>,
       <<(0 - 17776), "079872177760820001081581800008560010843814400082000">>,
       <<(0 - 27889), "06854572000071200081096360000748000813063240007120008146036000074800081670324000712000829653600007480008981232400078400091141288000748000990233240007840009920528800074800099387324000784000995692880007480009975132400078400099933288000748001001153240007840010029728800074800100479324000784001006682880007480010085032400078400101032288000748001012143240007840010139628800074800101494324000784001017602880007480010187932400078400102124288000748001023063240007840010249528800074800102670324000784001028592880007480010304132400078400103223288000748001034053240007840010358728800074800103769324000784001039512880007480010413332400078400104315288000748001044973240007840010468628800074800104861324000784001050502880007480010523232400078400105414288000748001055963240007840010577828800074800105960324000784001061422880007480010630332400078400106506288000748001066673240007840010687728800074800107031324000784001072412880007480010739532400078400107605288000748001077663240007840010796928800074800108130324000784001083332880007480010849432400078400108704288000748001088583240007840010906828800074800109222324000784001094322880007480010959332400078400109796288000748001099573240007840011016028800074800110321324000784001105242880007480011068532400078400110895288000748001110493240007840011125928800074800111413324000784001116232880007480011178432400078400111987288000748001121483240007840011235128800074800112512324000784001127222880007480011287632400078400113086288000748001132403240007840011345028800074800113583324000784001138212880007480011394732400078400114185288000748001143113240007840011454928800074800114682324000784001149202880007480011504632400078400115284288000748001154103240007840011564828800074800115774324000784001160122880007480011613832400078400116376288000748001165023240007840011674028800074800116873324000784001171112880007480011723732400078400117475288000748001176013240007840011783928800074800117965324000784001182032880007480011832932400078400118567288000748001187003240007840011893828800074800119064324000784001193022880007480011942832400078400119666288000748001197923240007840012003028800074800120156324000784001203942880007480012052032400078400120758288000748001208913240007840012112928800074800121255324000784001214932880007480012161932400078400121857288000748001219833240007840012222128800074800122347324000784001225852880007480012271832400078400122956288000748001230823240007840012332028800074800123446324000784001236842880007480012381032400078400124048288000748001241743240007840012441228800074800124538324000784001247762880007480012490932400078400125147288000748001252733240007840012551128800074800125637324000784001258752880007480012600132400078400126239288000748001263653240007840012660328800074800126729324000784001269672880007480012710032400078400127338288000748001274643240007840012770228800074800127828324000784001280662880007480012819232400078400128430288000748001285563240007840012879428800074800128927324000784001291652880007480012929132400078400129529288000748001296553240007840012989328800074800130019324000784001302572880007480013038332400078400130621288000748001307473240007840013098528800074800131118324000784001313562880007480013148232400078400131720288000748001318463240007840013208428800074800132210324000784001324482880007480013257432400078400132812288000748001329453240007840013318328800074800133309324000784001335472880007480013367332400078400133911288000748001340373240007840013427528800074800134401324000784001346392880007480013476532400078400135003288000748001351363240007840013537428800074800135500324000784001357382880007480013586432400078400136102288000748001362283240007840013646628800074800136592324000784001368302880007480013695632400078400137194288000748001373273240007840013756528800074800137691324000784001379292880007480013805532400078400138293288000748001384193240007840013865728800074800138783324000784001390212880007480013915432400078400139392288000748001395183240007840013975628800074800139882324000784001401202880007480014024632400078400140484288000748001406103240007840014084828800074800140974324000784001412122880007480014134532400078400141583288000748001417093240007840014194728800074800142073324000784001423112880007480014243732400078400142675288000748001428013240007840014303928800074800143172324000784001434102880007480014353632400078400143774288000748001439003240007840014413828800074800144264324000784001445022880007480014462832400078400144866288000748001449923240007840014523028800074800145363324000784001456012880007480014572732400078400145965288000748001460913240007840014632928800074800146455324000784001466932880007480014681932400078400147057288000748001471833240007840014742128800074800">>,
       <<0, "0817370000007480008981232400078400091141288000748001008503240007840010103228800074800101214324000784001013962880007480010157832400078400101760288000748001019423240007840010212428800074800102306324000784001024952880007480010267032400078400102859288000748001030413240007840010322328800074800103405324000784001035872880007480010376932400078400103951288000748001041333240007840010431528800074800104497324000784001046862880007480010486132400078400105050288000748001052323240007840010541428800074800105596324000784001057782880007480010596032400078400106142288000748001063033240007840010650628800074800106667324000784001068772880007480010703132400078400107241288000748001073953240007840010760528800074800107766324000784001079692880007480010813032400078400108333288000748001084943240007840010870428800074800108858324000784001090682880007480010922232400078400109432288000748001095933240007840010979628800074800109957324000784001101602880007480011032132400078400110524288000748001106853240007840011104928800082000111266180000784001116232880007480011178432400078400111987288000748001121483240007840011235128800074800112512324000784001127222880007480011287632400078400113086288000748001132403240007840011345028800074800113583324000784001138212880007480011394732400078400114185288000748001143113240007840011454928800074800114682324000784001149202880007480011504632400078400115284288000748001154103240007840011564828800074800115774324000784001160122880007480011613832400078400116376288000748001165023240007840011674028800074800116873324000784001171112880007480011723732400078400117475288000748001176013240007840011783928800074800117965324000784001182032880007480011832932400078400118567288000748001187003240007840011893828800074800119064324000784001193022880007480011942832400078400119666288000748001197923240007840012003028800074800120156324000784001203942880007480012052032400078400120758288000748001208913240007840012112928800074800121255324000784001214932880007480012161932400078400121857288000748001219833240007840012222128800074800122347324000784001225852880007480012271832400078400122956288000748001230823240007840012332028800074800123446324000784001236842880007480012381032400078400124048288000748001241743240007840012441228800074800124538324000784001247762880007480012490932400078400125147288000748001252733240007840012551128800074800125637324000784001258752880007480012600132400078400126239288000748001263653240007840012660328800074800126729324000784001269672880007480012710032400078400127338288000748001274643240007840012770228800074800127828324000784001280662880007480012819232400078400128430288000748001285563240007840012879428800074800128927324000784001291652880007480012929132400078400129529288000748001296553240007840012989328800074800130019324000784001302572880007480013038332400078400130621288000748001307473240007840013098528800074800131118324000784001313562880007480013148232400078400131720288000748001318463240007840013208428800074800132210324000784001324482880007480013257432400078400132812288000748001329453240007840013318328800074800133309324000784001335472880007480013367332400078400133911288000748001340373240007840013427528800074800134401324000784001346392880007480013476532400078400135003288000748001351363240007840013537428800074800135500324000784001357382880007480013586432400078400136102288000748001362283240007840013646628800074800136592324000784001368302880007480013695632400078400137194288000748001373273240007840013756528800074800137691324000784001379292880007480013805532400078400138293288000748001384193240007840013865728800074800138783324000784001390212880007480013915432400078400139392288000748001395183240007840013975628800074800139882324000784001401202880007480014024632400078400140484288000748001406103240007840014084828800074800140974324000784001412122880007480014134532400078400141583288000748001417093240007840014194728800074800142073324000784001423112880007480014243732400078400142675288000748001428013240007840014303928800074800143172324000784001434102880007480014353632400078400143774288000748001439003240007840014413828800074800144264324000784001445022880007480014462832400078400144866288000748001449923240007840014523028800074800145363324000784001456012880007480014572732400078400145965288000748001460913240007840014632928800074800146455324000784001466932880007480014681932400078400147057288000748001471833240007840014742128800074800">>,
       <<(0 - 13108), "07954613108085600086030540000892000862111080008560008639614400089200086576108000856000926641440008920009280014400085600093029144000892000931501080008560009339414400089200093516108000856000937601440008920009385010800085600097785144000892000978681080008560009820414400089200098263108000856000985081440008920009859810800085600098843144000892000989631080008560009920814400089200099329108000856001057841440008920010591710800085600106141144000892001062531080008560010650614400089200106611108000856001068631440008920010696810800085600107227144000892001073461080008560010759814400089200107717108000856001079621440008920010807410800085600108333144000892001084311080008560010869014400089200108816108000856001090541440008920010918010800085600109418144000892001095371080008560010977514400089200109908108000856001101401440008920011028610800085600110510144000892001106431080008560011086714400089200111014108000856001112381440008920011137110800085600111609144000892001117351080008560011199414400089200112099108000856001123441440008920011246310800085600112724144000892001128341080008560011307214400089200113198108000856001134571440008920011356910800085600113800144000892001139261080008560011417114400089200114290108000856001145351440008920011466110800085600114899144000892001150251080008560011526314400089200115396108000856001156341440008920011575310800085600115998144000892001161171080008560011636214400089200116488108000856001167261440008920011685210800085600117090144000892001172161080008560011745414400089200117580108000856001178391440008920011794410800085600">>,
       <<(0 - 20824), "082468216000784001043742160008200010959325200085600109796216000820001099572520008560011016021600082000110321252000856001104402160008200011052425200078400110685288000820001108952520007840011104928800082000111259252000784001114482880008200011159525200078400111784288000820001119872520007840011214828800082000112351252000784001125122880008200011272225200078400112876288000820001130862520007840011324028800082000113450252000784001136042880008200011381425200078400113975288000820001141782520007840011433928800082000114542252000784001147032880008200011491325200078400115067288000820001152772520007840011543128800082000115641252000784001158022880008200011600525200078400116166288000820001163692520007840011646728800082000">>,
       <<(0 - 16064), "0707811606408394007885716060083800098174162000856001138562520008380011692225200085600">>,
       <<(0 - 12560), "0786311256008560009917714400089200">>,
       <<(0 - 19532), "0707811953208157007884618430082000">>,
       <<(0 - 21036), "0685456480007840008109628800082000081306252000784000814602880008200008167025200078400081901288000820000820412520007840008218828800082000082405252000784000825872880008200008273425200078400082951288000820000831052520007840008331528800082000083469252000784000836792880008200008383325200078400084043288000820000841972520007840008440728800082000084561252000784000847782880008200008493225200078400085142288000820000852962520007840008550628800082000085660252000784000858702880008200008602425200078400086234288000820000863882520007840008660528800082000086752252000784000869692880008200008712325200078400087333288000820000874872520007840008764128800082000087900252000784000880612880008200008821525200078400088425288000820000885792520007840008879628800082000088943252000784000891602880008200008931425200078400089524288000820000896782520007840008981228800082000091141252000784000913512880008200009150525200078400091715288000820000918692520007840009207928800082000092233252000784000924432880008200009259725200078400092814288000820000929612520007840009317828800082000093332252000784000935422880008200009369625200078400093906288000820000940602520007840009427028800082000094424252000784000946342880008200009482325200078400095005288000820000951872520007840009536928800082000095551252000784000957332880008200009591525200078400096097288000820000962792520007840009646128800082000096650252000784000968322880008200009701425200078400097196288000820000973782520007840009756028800082000097742252000784000979242880008200009810625200078400098288288000820000984772520007840009865228800082000098841252000784000990232880008200009920525200078400099387288000820000995692520007840009975128800082000099933252000784001001152880008200010029725200078400100479288000820001006682520007840010085028800082000101032252000784001012142880008200010139625200078400101466288000820001017602520007840010187928800082000102124252000784001023062880008200010249525200078400102670288000820001028592520007840010304128800082000103223252000784001034052880008200010358725200078400103769288000820001039512520007840010413328800082000104315252000784001044972880008200010468625200078400104861288000820001050502520007840010523228800082000105414252000784001055962880008200010577825200078400105960288000820001061422520007840010630328800082000106506252000784001066672880008200010687725200078400107031288000820001072412520007840010739528800082000107605252000784001077662880008200010796925200078400108130288000820001083332520007840010849428800082000108704252000784001088582880008200010906825200078400109222288000820001094322520007840010959328800082000109796252000784001099572880008200011016025200078400110321288000820001105242520007840011068528800082000110895252000784001110492880008200011125925200078400111413288000820001116232520007840011178428800082000111987252000784001121482880008200011235125200078400112512288000820001127222520007840011287628800082000113086252000784001132402880008200011345025200078400113583288000820001138212520007840011394728800082000114185252000784001143112880008200011454925200078400114682288000820001149202520007840011504628800082000115284252000784001154102880008200011564825200078400115774288000820001160122520007840011613828800082000116376252000784001165022880008200011674025200078400116873288000820001171112520007840011723728800082000117475252000784001176012880008200011783925200078400117965288000820001182032520007840011832928800082000118567252000784001187002880008200011893825200078400119064288000820001193022520007840011942828800082000119666252000784001197922880008200012003025200078400120156288000820001203942520007840012052028800082000120758252000784001208912880008200012112925200078400121255288000820001214932520007840012161928800082000121857252000784001219832880008200012222125200078400122347288000820001225852520007840012271828800082000122956252000784001230822880008200012332025200078400123446288000820001236842520007840012381028800082000124048252000784001241742880008200012441225200078400124538288000820001247762520007840012490928800082000125147252000784001252732880008200012551125200078400125637288000820001258752520007840012600128800082000126239252000784001263652880008200012660325200078400126729288000820001269672520007840012710028800082000127338252000784001274642880008200012770225200078400127828288000820001280662520007840012819228800082000128430252000784001285562880008200012879425200078400128927288000820001291652520007840012929128800082000129529252000784001296552880008200012989325200078400130019288000820001302572520007840013038328800082000130621252000784001307472880008200013098525200078400131118288000820001313562520007840013148228800082000131720252000784001318462880008200013208425200078400132210288000820001324482520007840013257428800082000132812252000784001329452880008200013318325200078400133309288000820001335472520007840013367328800082000133911252000784001340372880008200013427525200078400134401288000820001346392520007840013476528800082000135003252000784001351362880008200013537425200078400135500288000820001357382520007840013586428800082000136102252000784001362282880008200013646625200078400136592288000820001368302520007840013695628800082000137194252000784001373272880008200013756525200078400137691288000820001379292520007840013805528800082000138293252000784001384192880008200013865725200078400138783288000820001390212520007840013915428800082000139392252000784001395182880008200013975625200078400139882288000820001401202520007840014024628800082000140484252000784001406102880008200014084825200078400140974288000820001412122520007840014134528800082000141583252000784001417092880008200014194725200078400142073288000820001423112520007840014243728800082000142675252000784001428012880008200014303925200078400143172288000820001434102520007840014353628800082000143774252000784001439002880008200014413825200078400144264288000820001445022520007840014462828800082000144866252000784001449922880008200014523025200078400145363288000820001456012520007840014572728800082000145965252000784001460912880008200014632925200078400146455288000820001466932520007840014681928800082000147057252000784001471832880008200014742125200078400">>,
       <<(0 - 25460), "08246825200074800084455216000784000857082160007480008587621600078400086028216000748000862112520007840010959328800082000109796252000784001099572880008200011016025200078400110524288000748001106853240007840011089528800074800111049324000784001112592880007480011144832400078400111595288000748001117843240007840011198728800074800112148324000784001123512880007480011251232400078400112722288000748001128763240007840011308628800074800113240324000784001134502880007480011360432400078400113814288000748001139753240007840011417828800074800114339324000784001145422880007480011470332400078400114913288000748001150673240007840011527728800074800115431324000784001156412880007480011580232400078400116005288000748001161663240007840011636928800074800116530324000784001167332880007480011689432400078400117104288000748001172583240007840011746828800074800117622324000784001178322880007480011799332400078400118196288000748001183573240007840011856028800074800118721324000784001189312880007480011908532400078400">>,
       <<(0 - 25556), "082468252000748000844552160007840008570821600074800085876216000784000860282160007480008621125200078400109593288000820001097962520007840010995728800082000110160252000784001105242880007480011068532400078400110895288000748001110493240007840011125928800074800111448324000784001115952880007480011178432400078400111987288000748001121483240007840011235128800074800112512324000784001127222880007480011287632400078400113086288000748001132403240007840011345028800074800113604324000784001138142880007480011397532400078400114178288000748001143393240007840011454228800074800114682324000784001149202880007480011504632400078400115284288000748001154103240007840011564828800074800115774324000784001160122880007480011613832400078400116376288000748001165023240007840011674028800074800116873324000784001171112880007480011723732400078400117475288000748001176013240007840011783928800074800117965324000784001182032880007480011832932400078400118567288000748001187003240007840011893828800074800119064324000784001193262160007480011942832400078400119666288000748001197923240007840012003028800074800120156324000784001203942880007480012052032400078400120758288000748001208913240007840012112928800074800121255324000784001214932880007480012161932400078400121857288000748001219833240007840012222128800074800122347324000784001225852880007480012271832400078400122956288000748001230823240007840012332028800074800123446324000784001236842880007480012381032400078400124048288000748001241743240007840012441228800074800124538324000784001247762880007480012490932400078400125147288000748001252733240007840012551128800074800125637324000784001258752880007480012600132400078400126239288000748001263653240007840012660328800074800126729324000784001269672880007480012710032400078400127338288000748001274643240007840012770228800074800127828324000784001280662880007480012819232400078400128430288000748001285563240007840012879428800074800128927324000784001291652880007480012929132400078400129529288000748001296553240007840012989328800074800130019324000784001302572880007480013038332400078400130621288000748001307473240007840013098528800074800131118324000784001313562880007480013148232400078400131720288000748001318463240007840013208428800074800132210324000784001324482880007480013257432400078400132812288000748001329453240007840013318328800074800133309324000784001335472880007480013367332400078400133911288000748001340373240007840013427528800074800134401324000784001346392880007480013476532400078400135003288000748001351363240007840013537428800074800135500324000784001357382880007480013586432400078400136102288000748001362283240007840013646628800074800136592324000784001368302880007480013695632400078400137194288000748001373273240007840013756528800074800137691324000784001379292880007480013805532400078400138293288000748001384193240007840013865728800074800138783324000784001390212880007480013915432400078400139392288000748001395183240007840013975628800074800139882324000784001401202880007480014024632400078400140484288000748001406103240007840014084828800074800140974324000784001412122880007480014134532400078400141583288000748001417093240007840014194728800074800142073324000784001423112880007480014243732400078400142675288000748001428013240007840014303928800074800143172324000784001434102880007480014353632400078400143774288000748001439003240007840014413828800074800144264324000784001445022880007480014462832400078400144866288000748001449923240007840014523028800074800145363324000784001456012880007480014572732400078400145965288000748001460913240007840014632928800074800146455324000784001466932880007480014681932400078400147057288000748001471833240007840014742128800074800">>,
       <<(0 - 19088), "0707811908808082407746619176082000">>,
       <<(0 - 20173), "082117201730784001033422160008200010344018000078400103706216000820001038041800007840010768821600082000107851180000784001080522160008200010810918000078400">>,
       <<(0 - 27964), "068589279640748000805502520007120008115928800074800">>,
       <<(0 - 13460), "0795461346008560008603054000089200086211108000856000863961440008920008657610800085600092664144000892000928001440008560009302914400089200093150108000856000933941440008920009351610800085600093760144000892000938501080008560009778514400089200097868108000856000982041440008920009826310800085600098508144000892000985981080008560009884314400089200098963108000856000992081440008920009932910800085600105784144000892001059171080008560010614114400089200106253108000856001065061440008920010661110800085600106863144000892001069681080008560010722714400089200107346108000856001075981440008920010771710800085600107962144000892001080741080008560010833314400089200108431108000856001086901440008920010881610800085600109054144000892001091801080008560010941814400089200109537108000856001097751440008920010990810800085600110140144000892001102861080008560011051014400089200110643108000856001108671440008920011101410800085600111238144000892001113711080008560011160914400089200111735108000856001119941440008920011209910800085600112724144000892001128341080008560011307214400089200113198108000856001134571440008920011356910800085600113800144000892001139261080008560011417114400089200114290108000856001145351440008920011466110800085600114899144000892001150251080008560011526314400089200115396108000856001156341440008920011575310800085600115998144000892001161171080008560011636214400089200116488108000856001167261440008920011685210800085600117090144000892001172161080008560011745414400089200117580108000856001178391440008920011794410800085600">>,
       <<(0 - 16547), "0788571654708380009817416200085600">>,
       <<(0 - 4480), "08048504480089200103748180000928001039230360008920010410503600092800104287036000892001044690360009280010465103600089200104833036000928001050150360008920010519703600092800105386036000892001055680360009280010575003600089200105932036000928001061140360008920010629603600092800106478036000892001066600360009280010684203600089200107024036000928001072060360008920010738803600092800107577036000892001077590360009280010794103600089200108123036000928001083050360008920010848703600092800108669036000892001088510360009280010903303600089200109215036000928001093970360008920010949610800100000">>,
       <<(0 - 33460), "07466433460067600081110396000712000813063600006760008151639600071200081676288000676000898123960007120009114136000067600098288324000748000984773240006760010139632400071200103769360000748001039513240007120010413336000074800104315324000712001044973600007480010468632400071200104861360000748001050503240007120010523236000074800105414324000712001055963600007480010577832400071200105960360000748001061423240007120010630336000074800106506324000712001066673600007480010687732400071200107031360000748001072413240007120010739536000074800107605324000712001077663600007480010796932400071200108130360000748001083333240007120010849436000074800108704324000712001088583600007480010906832400071200109222360000748001094323240007120010959336000074800109796324000712001099573600007480011016032400071200110321360000748001105243240007120011068536000074800110895324000712001110493600007480011125932400071200111413360000748001116233240007120011178436000074800111987324000712001121483600007480011235132400071200112512360000748001127223240007120011287636000074800113086324000712001132403600007480011345032400071200113583360000748001138213240007120011394736000074800114185324000712001143113600007480011454932400071200114682360000748001149203240007120011504636000074800115284324000712001154103600007480011564832400071200115774360000748001160123240007120011613836000074800116376324000712001165023600007480011674032400071200116873360000748001171113240007120011723736000074800117475324000712001176013600007480011783932400071200117965360000748001182033240007120011832936000074800">>,
       <<(0 - 28856), "0685892885607120008111036000074800081306324000712000898123600007480009114132400071200091715360000748000918693240007120009207936000074800092233324000712000924433600007480009259732400071200092814360000748000929613240007120009317836000074800093332324000712000935423600007480009369632400071200093906360000748000940603240007120009427036000074800094424324000712000946343600007480009478832400071200095005360000748000951593240007120009536936000074800095523324000712000957333600007480009588732400071200096097360000748000962513240007120009646136000074800096615324000712000968323600007480009697932400071200097196360000748000973783240007120009756036000074800097742324000712000979243600007480009810632400071200098288360000748000984773240007120009865236000074800098841324000712000990233600007480009920532400071200099387360000748000995693240007120009975136000074800099933324000712001001153600007480010029732400071200100479360000748001006683240007120010085036000074800">>,
       <<(0 - 25196), "0685456840007480008109632400078400081306288000748000814603240007840008167028800074800081824324000784000820412880007480008218832400078400082244288000748000898123240007840009114128800074800098288324000784000984772880007480009865232400078400098841288000748000990233240007840009920528800074800099387324000784000995692880007480009975132400078400099933288000748001001153240007840010029728800074800100479324000784001006682880007480010085032400078400101032288000748001012143240007840010139628800074800101466324000784001017602880007480010187932400078400102124288000748001023063240007840010249528800074800102670324000784001028592880007480010304132400078400103223288000748001034053240007840010358728800074800103769324000784001039512880007480010413332400078400104315288000748001044973240007840010468628800074800104861324000784001050502880007480010523232400078400105414288000748001055963240007840010577828800074800105960324000784001061422880007480010630332400078400106506288000748001066673240007840010687728800074800107031324000784001072412880007480010739532400078400107605288000748001077663240007840010796928800074800108130324000784001083332880007480010849432400078400108704288000748001088583240007840010906828800074800109222324000784001094322880007480010959332400078400109796288000748001099573240007840011016028800074800110321324000784001105242880007480011068532400078400110895288000748001110493240007840011125928800074800111413324000784001116232880007480011178432400078400111987288000748001121483240007840011235128800074800112512324000784001127222880007480011287632400078400113086288000748001132403240007840011345028800074800113583324000784001138212880007480011394732400078400114185288000748001143113240007840011454928800074800114682324000784001149202880007480011504632400078400115284288000748001154103240007840011564828800074800115774324000784001160122880007480011613832400078400116376288000748001165023240007840011674028800074800116873324000784001171112880007480011723732400078400117475288000748001176013240007840011783928800074800117965324000784001182032880007480011832932400078400118567288000748001187003240007840011893828800074800119064324000784001193022880007480011942832400078400119666288000748001197923240007840012003028800074800120156324000784001203942880007480012052032400078400120758288000748001208913240007840012112928800074800121255324000784001214932880007480012161932400078400121857288000748001219833240007840012222128800074800122347324000784001225852880007480012271832400078400122956288000748001230823240007840012332028800074800123446324000784001236842880007480012381032400078400124048288000748001241743240007840012441228800074800124538324000784001247762880007480012490932400078400125147288000748001252733240007840012551128800074800125637324000784001258752880007480012600132400078400126239288000748001263653240007840012660328800074800126729324000784001269672880007480012710032400078400127338288000748001274643240007840012770228800074800127828324000784001280662880007480012819232400078400128430288000748001285563240007840012879428800074800128927324000784001291652880007480012929132400078400129529288000748001296553240007840012989328800074800130019324000784001302572880007480013038332400078400130621288000748001307473240007840013098528800074800131118324000784001313562880007480013148232400078400131720288000748001318463240007840013208428800074800132210324000784001324482880007480013257432400078400132812288000748001329453240007840013318328800074800133309324000784001335472880007480013367332400078400133911288000748001340373240007840013427528800074800134401324000784001346392880007480013476532400078400135003288000748001351363240007840013537428800074800135500324000784001357382880007480013586432400078400136102288000748001362283240007840013646628800074800136592324000784001368302880007480013695632400078400137194288000748001373273240007840013756528800074800137691324000784001379292880007480013805532400078400138293288000748001384193240007840013865728800074800138783324000784001390212880007480013915432400078400139392288000748001395183240007840013975628800074800139882324000784001401202880007480014024632400078400140484288000748001406103240007840014084828800074800140974324000784001412122880007480014134532400078400141583288000748001417093240007840014194728800074800142073324000784001423112880007480014243732400078400142675288000748001428013240007840014303928800074800143172324000784001434102880007480014353632400078400143774288000748001439003240007840014413828800074800144264324000784001445022880007480014462832400078400144866288000748001449923240007840014523028800074800145363324000784001456012880007480014572732400078400145965288000748001460913240007840014632928800074800146455324000784001466932880007480014681932400078400147057288000748001471833240007840014742128800074800">>,
       <<(0 - 19931), "076259199310784000800452880008200008981225200085600091141216000820000920792520008560009223321600082000099068180600856000992052160008200009938725200085600099569216000820001012142520008560010139621600082000101466252000856001017602160008200010194225200085600102124216000820001023062520008560010249521600082000102670252000856001028592160008200010304125200085600103223216000820001034052520008560010358721600082000103769252000856001039512160008200010413325200085600104315216000820001044972520008560010468621600082000104861252000856001050502160008200010523225200085600105414216000820001055962520008560010577821600082000105960252000856001061422160008200010630325200085600106506216000820001066672520008560010687721600082000107031252000856001072412160008200010739525200085600107605216000820001077662520008560010796921600082000108130252000856001083332160008200010849425200085600108704216000820001088582520008560010906821600082000109222252000856001094322160008200010959325200085600109796216000820001099572520008560011016021600082000110321252000856001105242160008200011068525200085600110895216000820001110492520008560011125921600082000111413252000856001116232160008200011178425200085600111987216000820001121482520008560011235121600082000112512252000856001127222160008200011287625200085600113086216000820001132402520008560011345021600082000113583252000856001138212160008200011394725200085600114185216000820001143112520008560011454921600082000114682252000856001149202160008200011504625200085600115284216000820001154102520008560011564821600082000115774252000856001160122160008200011613825200085600116376216000820001165022520008560011674021600082000116873252000856001171112160008200011723725200085600117475216000820001176012520008560011783921600082000117965252000856001182032160008200011832925200085600118567216000820001187002520008560011893821600082000119064252000856001193022160008200011942825200085600119666216000820001197922520008560012003021600082000120156252000856001203942160008200012052025200085600120758216000820001208912520008560012112921600082000121255252000856001214932160008200012161925200085600121857216000820001219832520008560012222121600082000122347252000856001225852160008200012271825200085600122956216000820001230822520008560012332021600082000123446252000856001236842160008200012381025200085600124048216000820001241742520008560012441221600082000124538252000856001247762160008200012490925200085600125147216000820001252732520008560012551121600082000125637252000856001258752160008200012600125200085600126239216000820001263652520008560012660321600082000126729252000856001269672160008200012710025200085600127338216000820001274642520008560012770221600082000127828252000856001280662160008200012819225200085600128430216000820001285562520008560012879421600082000128927252000856001291652160008200012929125200085600129529216000820001296552520008560012989321600082000130019252000856001302572160008200013038325200085600130621216000820001307472520008560013098521600082000131118252000856001313562160008200013148225200085600131720216000820001318462520008560013208421600082000132210252000856001324482160008200013257425200085600132812216000820001329452520008560013318321600082000133309252000856001335472160008200013367325200085600133911216000820001340372520008560013427521600082000134401252000856001346392160008200013476525200085600135003216000820001351362520008560013537421600082000135500252000856001357382160008200013586425200085600136102216000820001362282520008560013646621600082000136592252000856001368302160008200013695625200085600137194216000820001373272520008560013756521600082000137691252000856001379292160008200013805525200085600138293216000820001384192520008560013865721600082000138783252000856001390212160008200013915425200085600139392216000820001395182520008560013975621600082000139882252000856001401202160008200014024625200085600140484216000820001406102520008560014084821600082000140974252000856001412122160008200014134525200085600141583216000820001417092520008560014194721600082000142073252000856001423112160008200014243725200085600142675216000820001428012520008560014303921600082000143172252000856001434102160008200014353625200085600143774216000820001439002520008560014413821600082000144264252000856001445022160008200014462825200085600144866216000820001449922520008560014523021600082000145363252000856001456012160008200014572725200085600145965216000820001460912520008560014632921600082000146455252000856001466932160008200014681925200085600147057216000820001471832520008560014742121600082000">>,
       <<(0 - 14736), "07863114796085600">>,
       <<(0 - 27232), "076867272320748000811103240007840008130628800074800081474324000784000815182880007480008185232400078400082041288000748000822163240007840008237028800074800082587324000784000827342880007480008295132400078400083105288000748000898123240007840009114128800074800091715324000784000918692880007480010085032400078400101032288000748001012143240007840010139628800074800101578324000784001017602880007480010194232400078400102124288000748001023063240007840010249528800074800102670324000784001028592880007480010304132400078400103223288000748001034053240007840010358728800074800103769324000784001039512880007480010413332400078400104315288000748001044973240007840010468628800074800104861324000784001050502880007480010523232400078400105414288000748001055963240007840010577828800074800105960324000784001061422880007480010630332400078400106506288000748001066673240007840010687728800074800107031324000784001072412880007480010739532400078400107605288000748001077663240007840010796928800074800108130324000784001083332880007480010849432400078400108704288000748001088583240007840010906828800074800109222324000784001094322880007480010959332400078400109796288000748001099573240007840011016028800074800110321324000784001105242880007480011068532400078400110895288000748001110493240007840011125928800074800111413324000784001116232880007480011178432400078400111987288000748001121483240007840011235128800074800112512324000784001127222880007480011287632400078400113086288000748001132403240007840011345028800074800113583324000784001138212880007480011394732400078400114185288000748001143113240007840011454928800074800114682324000784001149202880007480011504632400078400115284288000748001154103240007840011564828800074800115774324000784001160122880007480011613832400078400116376288000748001165023240007840011674028800074800116873324000784001171112880007480011723732400078400117475288000748001176013240007840011783928800074800117965324000784001182032880007480011832932400078400118567288000748001187003240007840011893828800074800119064324000784001193022880007480011942832400078400119666288000748001197923240007840012003028800074800120156324000784001203942880007480012052032400078400120758288000748001208913240007840012112928800074800121255324000784001214932880007480012161932400078400121857288000748001219833240007840012222128800074800122347324000784001225852880007480012271832400078400122956288000748001230823240007840012332028800074800123446324000784001236842880007480012381032400078400124048288000748001241743240007840012441228800074800124538324000784001247762880007480012490932400078400125147288000748001252733240007840012551128800074800125637324000784001258752880007480012600132400078400126239288000748001263653240007840012660328800074800126729324000784001269672880007480012710032400078400127338288000748001274643240007840012770228800074800127828324000784001280662880007480012819232400078400128430288000748001285563240007840012879428800074800128927324000784001291652880007480012929132400078400129529288000748001296553240007840012989328800074800130019324000784001302572880007480013038332400078400130621288000748001307473240007840013098528800074800131118324000784001313562880007480013148232400078400131720288000748001318463240007840013208428800074800132210324000784001324482880007480013257432400078400132812288000748001329453240007840013318328800074800133309324000784001335472880007480013367332400078400133911288000748001340373240007840013427528800074800134401324000784001346392880007480013476532400078400135003288000748001351363240007840013537428800074800135500324000784001357382880007480013586432400078400136102288000748001362283240007840013646628800074800136592324000784001368302880007480013695632400078400137194288000748001373273240007840013756528800074800137691324000784001379292880007480013805532400078400138293288000748001384193240007840013865728800074800138783324000784001390212880007480013915432400078400139392288000748001395183240007840013975628800074800139882324000784001401202880007480014024632400078400140484288000748001406103240007840014084828800074800140974324000784001412122880007480014134532400078400141583288000748001417093240007840014194728800074800142073324000784001423112880007480014243732400078400142675288000748001428013240007840014303928800074800143172324000784001434102880007480014353632400078400143774288000748001439003240007840014413828800074800144264324000784001445022880007480014462832400078400144866288000748001449923240007840014523028800074800145363324000784001456012880007480014572732400078400145965288000748001460913240007840014632928800074800146455324000784001466932880007480014681932400078400147057288000748001471833240007840014742128800074800">>,
       <<(0 - 16768), "079546167680820000860305760008560008621114400082000086396180000856000865761440008200009266418000085600092800180000820000930291800008560009315014400082000093394180000856000935161440008200009376018000085600093850144000820000977851800008560009786814400082000098204180000856000982631440008200009850818000085600098598144000820000988431800008560009896314400082000099208180000856000993291440008200010578418000085600105917144000820001061411800008560010625314400082000106506180000856001066111440008200010869018000085600108816144000820001140541800008560011601914400082000">>,
       <<(0 - 21408), "0821032140807840010633121600082000106478180000784001066952160008200010684218000078400">>,
       <<(0 - 28084), "0824682520007480008319825200071200084455252000748000857082520007120008584528800074800086027252000712000898862880007480009118425200071200092059288000748000923432520007120009427032400074800094424324000712000946343240007480009478832400071200095005324000748000951593240007120009536932400074800095523324000712000957333240007480009588732400071200096097324000748000962513240007120009646132400074800096615324000712001023063600007480010249532400071200102670360000748001028593240007120010304136000074800103223324000712001034053600007480010358732400071200103769360000748001039513240007120010413336000074800104315324000712001044973600007480010468632400071200104861360000748001050503240007120010523236000074800105414324000712001055963600007480010577832400071200105960360000748001061423240007120010630336000074800106506324000712001066673600007480010687732400071200107031360000748001072413240007120010739536000074800107605324000712001077663600007480010796932400071200108130360000748001083333240007120010849436000074800108704324000712001088583600007480010906832400071200109222360000748001094323240007120010959336000074800109796324000712001099573600007480011016032400071200110321360000748001105243240007120011068536000074800110895324000712001110493600007480011125932400071200111413360000748001116233240007120011178436000074800111987324000712001121483600007480011235132400071200112512360000748001127223240007120011287636000074800113086324000712001132403600007480011345032400071200113604360000748001138143240007120011397536000074800114178324000712001143393600007480011454232400071200114682360000748001149203240007120011504636000074800115284324000712001154103600007480011564832400071200115774360000748001160123240007120011613836000074800116376324000712001165023600007480011674032400071200116873360000748001171113240007120011723736000074800117475324000712001176013600007480011783932400071200117965360000748001182033240007120011832936000074800118567324000712001187003600007480011893832400071200119064360000748001193023240007120011942836000074800119666324000712001197923600007480012003032400071200120156360000748001203943240007120012052036000074800120758324000712001208913600007480012112932400071200121255360000748001214933240007120012161936000074800121857324000712001219833600007480012222132400071200122347360000748001225853240007120012271836000074800122956324000712001230823600007480012332032400071200123446360000748001236843240007120012381036000074800124048324000712001241743600007480012441232400071200124538360000748001247763240007120012490936000074800125147324000712001252733600007480012551132400071200125637360000748001258753240007120012600136000074800126239324000712001263653600007480012660332400071200126729360000748001269673240007120012710036000074800127338324000712001274643600007480012770232400071200127828360000748001280663240007120012819236000074800128430324000712001285563600007480012879432400071200128927360000748001291653240007120012929136000074800129529324000712001296553600007480012989332400071200130019360000748001302573240007120013038336000074800130621324000712001307473600007480013098532400071200131118360000748001313563240007120013148236000074800131720324000712001318463600007480013208432400071200132210360000748001324483240007120013257436000074800132812324000712001329453600007480013318332400071200133309360000748001335473240007120013367336000074800133911324000712001340373600007480013427532400071200134401360000748001346393240007120013476536000074800135003324000712001351363600007480013537432400071200135500360000748001357383240007120013586436000074800136102324000712001362283600007480013646632400071200136592360000748001368303240007120013695636000074800137194324000712001373273600007480013756532400071200137691360000748001379293240007120013805536000074800138293324000712001384193600007480013865732400071200138783360000748001390213240007120013915436000074800139392324000712001395183600007480013975632400071200139882360000748001401203240007120014024636000074800140484324000712001406103600007480014084832400071200140974360000748001412123240007120014134536000074800141583324000712001417093600007480014194732400071200142073360000748001423113240007120014243736000074800142675324000712001428013600007480014303932400071200143172360000748001434103240007120014353636000074800143774324000712001439003600007480014413832400071200144264360000748001445023240007120014462836000074800144866324000712001449923600007480014523032400071200145363360000748001456013240007120014572736000074800145965324000712001460913600007480014632932400071200146455360000748001466933240007120014681936000074800147057324000712001471833600007480014742132400071200">>,
       <<(0 - 29447), "06858929447071200081110360000748000813063240007120008981236000074800091141324000712000917153600007480009186932400071200092079360000748000922333240007120009244336000074800092597324000712000928143600007480009296132400071200093178360000748000933323240007120009354236000074800093696324000712000939063600007480009406032400071200094270360000748000944243240007120009463436000074800094788324000712000950053600007480009515932400071200095369360000748000955233240007120009573336000074800095887324000712000960973600007480009625132400071200096461360000748000966153240007120009683236000074800096979324000712000971963600007480009737832400071200097560360000748000977423240007120009792436000074800098106324000712000982883600007480009847732400071200098652360000748000988413240007120009902336000074800099205324000712000993873600007480009956932400071200099751360000748000999333240007120010011536000074800100297324000712001004793600007480010066832400071200100850360000748001010323240007120010121436000074800101396324000712001015783600007480010176032400071200101942360000748001021243240007120010230636000074800102495324000712001026703600007480010285932400071200103041360000748001032233240007120010340536000074800103587324000712001037693600007480010395132400071200104133360000748001043153240007120010449736000074800104686324000712001048613600007480010505032400071200105232360000748001054143240007120010559636000074800105778324000712001059603600007480010614232400071200106303360000748001065063240007120010666736000074800106877324000712001070313600007480010724132400071200107395360000748001076053240007120010776636000074800107969324000712001081303600007480010833332400071200108494360000748001087043240007120010885836000074800109068324000712001092223600007480010943232400071200109593360000748001097963240007120010995736000074800110160324000712001103213600007480011052432400071200110685360000748001108953240007120011104936000074800111259324000712001114133600007480011162332400071200111784360000748001119873240007120011214836000074800112351324000712001125123600007480011272232400071200112876360000748001130863240007120011324036000074800113450324000712001135833600007480011382132400071200113947360000748001141853240007120011431136000074800114549324000712001146823600007480011492032400071200115046360000748001152843240007120011541036000074800115648324000712001157743600007480011601232400071200116138360000748001163763240007120011650236000074800">>,
       <<(0 - 20678), "068545648000784000810962880008200008130625200078400081460288000820000816702520007840008958028800082000089678252000784000898122880008200009114125200078400091351288000820000915052520007840009171528800082000091869252000784000920792880008200009223325200078400092443288000820000925972520007840009281428800082000092961252000784000931782880008200009333225200078400093542288000820000936962520007840009390628800082000094060252000784000942702880008200009442425200078400094634288000820000955232520007840009573328800082000099751252000856000999332160008200010011525200085600100297216000820001132402520008560011345021600082000113583252000856001138212160008200011394725200085600114185216000820001143112520008560011454921600082000114682252000856001149202160008200011504625200085600115284216000820001154102520008560011564821600082000115774252000856001160122160008200011613825200085600116376216000820001165022520008560011674021600082000116873252000856001171112160008200011723725200085600117475216000820001176012520008560011783921600082000117965252000856001182032160008200011832925200085600118567216000820001187002520008560011893821600082000119064252000856001193022160008200011942825200085600119666216000820001197922520008560012003021600082000120156252000856001203942160008200012052025200085600120758216000820001208912520008560012112921600082000121255252000856001214932160008200012161925200085600121857216000820001219832520008560012222121600082000122347252000856001225852160008200012271825200085600122956216000820001230822520008560012332021600082000123446252000856001236842160008200012381025200085600124048216000820001241742520008560012441221600082000124538252000856001247762160008200012490925200085600125147216000820001252732520008560012551121600082000125637252000856001258752160008200012600125200085600126239216000820001263652520008560012660321600082000126729252000856001269672160008200012710025200085600127338216000820001274642520008560012770221600082000127828252000856001280662160008200012819225200085600128430216000820001285562520008560012879421600082000128927252000856001291652160008200012929125200085600129529216000820001296552520008560012989321600082000130019252000856001302572160008200013038325200085600130621216000820001307472520008560013098521600082000131118252000856001313562160008200013148225200085600131720216000820001318462520008560013208421600082000132210252000856001324482160008200013257425200085600132812216000820001329452520008560013318321600082000133309252000856001335472160008200013367325200085600133911216000820001340372520008560013427521600082000134401252000856001346392160008200013476525200085600135003216000820001351362520008560013537421600082000135500252000856001357382160008200013586425200085600136102216000820001362282520008560013646621600082000136592252000856001368302160008200013695625200085600137194216000820001373272520008560013756521600082000137691252000856001379292160008200013805525200085600138293216000820001384192520008560013865721600082000138783252000856001390212160008200013915425200085600139392216000820001395182520008560013975621600082000139882252000856001401202160008200014024625200085600140484216000820001406102520008560014084821600082000140974252000856001412122160008200014134525200085600141583216000820001417092520008560014194721600082000142073252000856001423112160008200014243725200085600142675216000820001428012520008560014303921600082000143172252000856001434102160008200014353625200085600143774216000820001439002520008560014413821600082000144264252000856001445022160008200014462825200085600144866216000820001449922520008560014523021600082000145363252000856001456012160008200014572725200085600145965216000820001460912520008560014632921600082000146455252000856001466932160008200014681925200085600147057216000820001471832520008560014742121600082000">>,
       <<(0 - 9240), "079546092400892000860305040009280008621107200089200086396108000928000865760720008920009266410800092800092800108000892000930291080009280009315007200089200093394108000928000935160720008920009376010800092800093850072000892000977851080009280009786807200089200098204108000928000982630720008920009850810800092800098598072000892000988431080009280009896307200089200099208108000928000993290720008920010578410800092800105917072000892001061411080009280010625307200089200106506108000928001066110720008920010686310800092800106968072000892001072271080009280010734607200089200110867108000928001110140720008920011123810800092800111252072000892001116091080009280011173507200089200">>,
       <<(0 - 14388), "0753281438808560008111021600089200081306180000856000898122160008920009114118000085600093906216000892000940601800008560010085021600089200101032180000856001012142160008920010139618000085600101578216000892001017601800008560010194221600089200102124180000856001023062160008920010249518000085600102670216000892001028591800008560010304121600089200103223180000856001034052160008920010358718000085600103769216000892001039511800008560010413321600089200104315180000856001044972160008920010468618000085600104861216000892001050501800008560010523221600089200105414180000856001055962160008920010577818000085600105960216000892001061421800008560010630321600089200106506180000856001066672160008920010687718000085600107031216000892001072411800008560010739521600089200107605180000856001077662160008920010796918000085600108130216000892001083331800008560010849421600089200108704180000856001088582160008920010906818000085600109222216000892001094321800008560010959321600089200109796180000856001099572160008920011016018000085600110321216000892001105241800008560011068521600089200110895180000856001110492160008920011125918000085600111413216000892001116231800008560011178421600089200111987180000856001121482160008920011235118000085600112512216000892001127221800008560011287621600089200113086180000856001132402160008920011345018000085600113583216000892001138211800008560011394721600089200114185180000856001143112160008920011454918000085600114682216000892001149201800008560011504621600089200115284180000856001154102160008920011564818000085600115774216000892001160121800008560011613821600089200116376180000856001165022160008920011674018000085600116873216000892001171111800008560011723721600089200117475180000856001176012160008920011783918000085600117965216000892001182031800008560011832921600089200118567180000856001187002160008920011893818000085600119064216000892001193021800008560011942821600089200119666180000856001197922160008920012003018000085600120156216000892001203941800008560012052021600089200120758180000856001208912160008920012112918000085600121255216000892001214931800008560012161921600089200121857180000856001219832160008920012222118000085600122347216000892001225851800008560012271821600089200122956180000856001230822160008920012332018000085600123446216000892001236841800008560012381021600089200124048180000856001241742160008920012441218000085600124538216000892001247761800008560012490921600089200125147180000856001252732160008920012551118000085600125637216000892001258751800008560012600121600089200126239180000856001263652160008920012660318000085600126729216000892001269671800008560012710021600089200127338180000856001274642160008920012770218000085600127828216000892001280661800008560012819221600089200128430180000856001285562160008920012879418000085600128927216000892001291651800008560012929121600089200129529180000856001296552160008920012989318000085600130019216000892001302571800008560013038321600089200130621180000856001307472160008920013098518000085600131118216000892001313561800008560013148221600089200131720180000856001318462160008920013208418000085600132210216000892001324481800008560013257421600089200132812180000856001329452160008920013318318000085600133309216000892001335471800008560013367321600089200133911180000856001340372160008920013427518000085600134401216000892001346391800008560013476521600089200135003180000856001351362160008920013537418000085600135500216000892001357381800008560013586421600089200136102180000856001362282160008920013646618000085600136592216000892001368301800008560013695621600089200137194180000856001373272160008920013756518000085600137691216000892001379291800008560013805521600089200138293180000856001384192160008920013865718000085600138783216000892001390211800008560013915421600089200139392180000856001395182160008920013975618000085600139882216000892001401201800008560014024621600089200140484180000856001406102160008920014084818000085600140974216000892001412121800008560014134521600089200141583180000856001417092160008920014194718000085600142073216000892001423111800008560014243721600089200142675180000856001428012160008920014303918000085600143172216000892001434101800008560014353621600089200143774180000856001439002160008920014413818000085600144264216000892001445021800008560014462821600089200144866180000856001449922160008920014523018000085600145363216000892001456011800008560014572721600089200145965180000856001460912160008920014632918000085600146455216000892001466931800008560014681921600089200147057180000856001471832160008920014742118000085600">>,
       <<(0 - 12416), "080485124160892001037481800009280010392303600089200104105036000928001042870360008920010446903600092800104651036000892001048330360009280010501503600089200105197036000928001053860360008920010556803600092800105750036000892001059320360009280010611403600089200106296036000928001064780360008920010666003600092800106842036000892001070240360009280010720603600089200107388036000928001075770360008920010775903600092800107941036000892001081230360009280010830503600089200108487036000928001086690360008920010885103600092800109033036000892001092150360009280010939703600089200109586036000928001097960360008920010995003600092800110160036000892001103140360009280011052403600089200110678036000928001108950360008920011104203600092800111259036000892001114060360009280011162303600089200111777036000928001119870360008920011214103600092800112351036000892001125050360009280011272203600089200112869036000928001130860360008920011323303600092800113450036000892001135970360009280011381403600089200113968036000928001141780360008920011433203600092800114542036000892001146960360009280011491303600089200115060036000928001152770360008920011542403600092800115641036000892001157950360009280011600503600089200116159036000928001163690360008920011652303600092800116733036000892001168870360009280011710403600089200117251036000928001174680360008920011761503600092800117832036000892001179860360009280011819603600089200118350036000928001185600360008920011871403600092800118931036000892001190780360009280011929503600089200119442036000928001198130360009640012002303600092800120177036000964001203870360009280012054103600096400120751036000928001209050360009640012112203600092800121269036000964001214860360009280012163303600096400121850036000928001220040360009640012221403600092800122368036000964001225780360009280012273203600096400122949036000928001230960360009640012331303600092800123460036000964001236770360009280012382403600096400124041036000928001241950360009640012440503600092800124559036000964001247690360009280012492303600096400125140036000928001252870360009640012550403600092800125651036000964001258680360009280012602203600096400126232036000928001263860360009640012659603600092800126750036000964001269600360009280012711403600096400127331036000928001274780360009640012769503600092800127842036000964001280590360009280012821303600096400128423036000928001285770360009640012878703600092800128941036000964001291580360009280012930503600096400129522036000928001296690360009640012988603600092800130040036000964001302500360009280013040403600096400130614036000928001307680360009640013097803600092800131132036000964001313490360009280013149603600096400131713036000928001318600360009640013207703600092800132231036000964001324410360009280013259503600096400132805036000928001329590360009640013317603600092800133323036000964001335400360009280013368703600096400133904036000928001340510360009640013426803600092800134422036000964001346320360009280013478603600096400134996036000928001351500360009640013536703600092800135514036000964001357310360009280013587803600096400136095036000928001362490360009640013645903600092800136613036000964001368230360009280013697703600096400137187036000928001373410360009640013755803600092800137705036000964001379220360009280013806903600096400138286036000928001384400360009640013865003600092800138804036000964001390140360009280013916803600096400139385036000928001395320360009640013974903600092800139896036000964001401130360009280014026703600096400140477036000928001406310360009640014084103600092800140995036000964001412050360009280014135903600096400141576036000928001417230360009640014194003600092800142087036000964001423040360009280014245803600096400142668036000928001428220360009640014303203600092800143186036000964001434030360009280014355003600096400143767036000928001439140360009640014413103600092800144278036000964001444950360009280014464903600096400144859036000928001450130360009640014522303600092800145377036000964001455940360009280014574103600096400145958036000928001461050360009640014632203600092800146476036000964001466860360009280014684003600096400147050036000928001472040360009640014741403600092800">>,
       <<(0 - 14500), "068589145000873480811101985209094808130616252087348087304126520874000877121260009100008785909000087400088076126000910000882230900008740008844012600091000088587090000874000888111260009100008895109000087400089175126000910000893220900008740008953912600091000089686090000874000899031260009100009114116200087400091365198000910000915121620008740009172919800091000091876162000874000920931980009100009224016200087400092457198000910000926041620008740009282819800091000092975162000874000931781980009100009333216200087400093542198000910000936961620008740009390619800091000094060162000874000942701980009100009442416200087400094634198000910000947881620008740009500519800091000095159162000874000953691980009100009552316200087400095733198000910000958871620008740009609719800091000096251162000874000964611980009100009665016200087400096832198000910000970141620008740009719619800091000097378162000874000975601980009100009774216200087400097924198000910000981061620008740009828819800091000098477162000874000986121980008560009865221600089200098841180000856000990232160008920009920518000085600099387216000892000995691800008560009975121600089200099933180000856001001152160008920010029718000085600100479216000892001006681800008560010085021600089200101032180000856001012142160008920010139618000085600101578216000892001017601800008560010194221600089200102124180000856001023062160008920010249518000085600102670216000892001028591800008560010304121600089200103223180000856001034052160008920010358718000085600103769216000892001039511800008560010413321600089200104315180000856001044972160008920010468618000085600104861216000892001050501800008560010523221600089200105414180000856001055962160008920010577818000085600105960216000892001061421800008560010630314460089200106506108600856001066671446009280010687707260085600107031144600892001072411086008560010739514460089200107605108600856001077661446008920010796910860085600108130144600892001083331086008560010849414460089200108704108600856001088581446008920010906810860085600109222144600892001094321086008560010959314460089200109796108600856001099571446008920011016010860085600110321144600892001105241086008560011068514460089200110895108600856001110491446008920011125910860085600111413144600892001116231086008560011178414460089200111987108600856001121481446008920011235110860085600112512144600892001127221086008560011287614460089200113086108600856001132401446008920011345010860085600113583144600892001138211086008560011394714460089200114185108600856001143111446008920011454910860085600114682144600892001149201086008560011504614460089200115284180000856001154102160008920011564818000085600115774216000892001160121800008560011613821600089200116376180000856001165022160008920011674018000085600116873216000892001171111800008560011723721600089200117475180000856001176012160008920011783918000085600117965216000892001182031800008560011832921600089200118567180000856001187002160008920011893818000085600119064216000892001193021800008560011942821600089200119666180000856001197922160008920012003018000085600120156216000892001203941800008560012052021600089200120758180000856001208912160008920012112918000085600121255216000892001214931800008560012161921600089200121857180000856001219832160008920012222118000085600122347216000892001225851800008560012271821600089200122956180000856001230822160008920012332018000085600123446216000892001236841800008560012381021600089200124048180000856001241742160008920012441218000085600124538216000892001247761800008560012490921600089200125147180000856001252732160008920012551118000085600125637216000892001258751800008560012600121600089200126239180000856001263652160008920012660318000085600126729216000892001269671800008560012710021600089200127338180000856001274642160008920012770218000085600127828216000892001280661800008560012819221600089200128430180000856001285562160008920012879418000085600128927216000892001291651800008560012929121600089200129529180000856001296552160008920012989318000085600130019216000892001302571800008560013038321600089200130621180000856001307472160008920013098518000085600131118216000892001313561800008560013148221600089200131720180000856001318462160008920013208418000085600132210216000892001324481800008560013257421600089200132812180000856001329452160008920013318318000085600133309216000892001335471800008560013367321600089200133911180000856001340372160008920013427518000085600134401216000892001346391800008560013476521600089200135003180000856001351362160008920013537418000085600135500216000892001357381800008560013586421600089200136102180000856001362282160008920013646618000085600136592216000892001368301800008560013695621600089200137194180000856001373272160008920013756518000085600137691216000892001379291800008560013805521600089200138293180000856001384192160008920013865718000085600138783216000892001390211800008560013915421600089200139392180000856001395182160008920013975618000085600139882216000892001401201800008560014024621600089200140484180000856001406102160008920014084818000085600140974216000892001412121800008560014134521600089200141583180000856001417092160008920014194718000085600142073216000892001423111800008560014243721600089200142675180000856001428012160008920014303918000085600143172216000892001434101800008560014353621600089200143774180000856001439002160008920014413818000085600144264216000892001445021800008560014462821600089200144866180000856001449922160008920014523018000085600145363216000892001456011800008560014572721600089200145965180000856001460912160008920014632918000085600146455216000892001466931800008560014681921600089200147057180000856001471832160008920014742118000085600">>,
       <<(0 - 17072), "07078117072081570078846184300820001034052520008560010358721600082000103769252000856001039512160008200010413325200085600104315216000820001044972520008560010468621600082000104861252000856001050502160008200010523225200085600105414216000820001055962520008560010577821600082000105960252000856001061422160008200010630325200085600106506216000820001066672520008560010687721600082000107031252000856001072412160008200010739525200085600107605216000820001077662520008560010796921600082000108130252000856001083332160008200010849425200085600108704216000820001088582520008560010906821600082000109222252000856001094322160008200010959325200085600109796216000820001099572520008560011016021600082000110321252000856001105242160008200011068525200085600110895216000820001110492520008560011125921600082000111413252000856001116232160008200011178425200085600111987216000820001121482520008560011235121600082000112512252000856001127222160008200011287625200085600113086216000820001132402520008560011345021600082000113583252000856001138212160008200011394725200085600114185216000820001143112520008560011454921600082000114682252000856001149202160008200011504625200085600115284216000820001154102520008560011564821600082000115774252000856001160122160008200011613825200085600116376216000820001165022520008560011783921600082000117965252000856001182032160008200011832925200085600118567216000820001187002520008560011893821600082000119064252000856001193022160008200011942825200085600119666216000820001197922520008560012003021600082000120156252000856001203942160008200012052025200085600120758216000820001208912520008560012112921600082000121255252000856001214932160008200012161925200085600121857216000820001219832520008560012222121600082000122347252000856001225852160008200012271825200085600122956216000820001230822520008560012332021600082000123446252000856001236842160008200012381025200085600124048216000820001241742520008560012441221600082000124538252000856001247762160008200012490925200085600125147216000820001252732520008560012551121600082000125637252000856001258752160008200012600125200085600126239216000820001263652520008560012660321600082000126729252000856001269672160008200012710025200085600127338216000820001274642520008560012770221600082000127828252000856001280662160008200012819225200085600128430216000820001285562520008560012879421600082000128927252000856001291652160008200012929125200085600129529216000820001296552520008560012989321600082000130019252000856001302572160008200013038325200085600130621216000820001307472520008560013098521600082000131118252000856001313562160008200013148225200085600131720216000820001318462520008560013208421600082000132210252000856001324482160008200013257425200085600132812216000820001329452520008560013318321600082000133309252000856001335472160008200013367325200085600133911216000820001340372520008560013427521600082000134401252000856001346392160008200013476525200085600135003216000820001351362520008560013537421600082000135500252000856001357382160008200013586425200085600136102216000820001362282520008560013646621600082000136592252000856001368302160008200013695625200085600137194216000820001373272520008560013756521600082000137691252000856001379292160008200013805525200085600138293216000820001384192520008560013865721600082000138783252000856001390212160008200013915425200085600139392216000820001395182520008560013975621600082000139882252000856001401202160008200014024625200085600140484216000820001406102520008560014084821600082000140974252000856001412122160008200014134525200085600141583216000820001417092520008560014194721600082000142073252000856001423112160008200014243725200085600142675216000820001428012520008560014303921600082000143172252000856001434102160008200014353625200085600143774216000820001439002520008560014413821600082000144264252000856001445022160008200014462825200085600144866216000820001449922520008560014523021600082000145363252000856001456012160008200014572725200085600145965216000820001460912520008560014632921600082000146455252000856001466932160008200014681925200085600147057216000820001471832520008560014742121600082000">>,
       <<(0 - 14820), "07863114820085600">>,
       <<(0 - 14768), "07860814768085600">>,
       <<(0 - 21724), "081284217240784001014242160008200010151518000078400104888216000820001050121800007840010775121600082000107919180000784001132682160008200011342218000078400">>,
       <<(0 - 19160), "07078119160081160085755188400820001083671800008560010843614400082000">>,
       <<(0 - 13959), "07866213959085600079970144000865001020381350008920010812314400085600">>,
       <<(0 - 15264), "075328152640856000803671440008920008055010800085600081110216000892000813061800008560008186614400089200081978108000856000822281440008920008235010800085600082587144000892000827151080008560008295814400089200083079108000856000833221440008920008345610800085600083686144000892000838341080008560008406414400089200084184108000856000844141440008920008456210800085600084792144000892000849111080008560008515614400089200085270108000856000855201440008920008564710800085600085884144000892000860251080008560008624114400089200086389108000856000866051440008920008676010800085600086990144000892000871091080008560008736814400089200087488108000856000877331440008920008783810800085600088068144000892000882161080008560008843214400089200088580108000856000888241440008920008894410800085600089167144000892000893151080008560008953114400089200089679108000856000898122160008920009114118000085600091351216000892000915051800008560009171521600089200091869180000856000920792160008920009223318000085600092443216000892000925971800008560009317821600089200093332180000856000935422160008920009369618000085600093906216000892000940601800008560009427021600089200094424180000856000950052160008920009515918000085600095369216000892000955231800008560009573321600089200095887180000856000960972160008920009625118000085600097196216000892000973781800008560009756021600089200097742180000856000979242160008920009810618000085600098288216000892000984771800008560009865221600089200098841180000856000990232160008920009920518000085600099387216000892000995691800008560009975121600089200099933180000856001001152160008920010029718000085600100479216000892001006681800008560010085021600089200101032180000856001012142160008920010139618000085600101578216000892001017601800008560010194221600089200102124180000856001023062160008920010249518000085600102670216000892001028591800008560010304121600089200103223180000856001034052160008920010358718000085600103769216000892001039511800008560010413321600089200104315180000856001044972160008920010468618000085600104861216000892001050501800008560010523221600089200105414180000856001055962160008920010577818000085600105960216000892001061421800008560010630321600089200106506180000856001066672160008920010687718000085600107031216000892001072411800008560010739521600089200107605180000856001077662160008920010796918000085600108130216000892001083331800008560010849421600089200108704180000856001088582160008920010906818000085600109222216000892001094321800008560010959321600089200109796180000856001099572160008920011016018000085600110321216000892001105241800008560011068521600089200110895180000856001110492160008920011125918000085600111413216000892001116231800008560011178421600089200111987180000856001121482160008920011235118000085600112512216000892001127221800008560011287621600089200113086180000856001132402160008920011345018000085600113583216000892001138211800008560011394721600089200114185180000856001143112160008920011454918000085600114682216000892001149201800008560011504621600089200115284180000856001154102160008920011564818000085600115774216000892001160121800008560011613821600089200116376180000856001165022160008920011674018000085600116873216000892001171111800008560011723721600089200117475180000856001176012160008920011783918000085600117965216000892001182031800008560011832921600089200118567180000856001187002160008920011893818000085600119064216000892001193021800008560011942821600089200119666180000856001197922160008920012003018000085600120156216000892001203941800008560012052021600089200120758180000856001208912160008920012112918000085600121255216000892001214931800008560012161921600089200121857180000856001219832160008920012222118000085600122347216000892001225851800008560012271821600089200122956180000856001230822160008920012332018000085600123446216000892001236841800008560012381021600089200124048180000856001241742160008920012441218000085600124538216000892001247761800008560012490921600089200125147180000856001252732160008920012551118000085600125637216000892001258751800008560012600121600089200126239180000856001263652160008920012660318000085600126729216000892001269671800008560012710021600089200127338180000856001274642160008920012770218000085600127828216000892001280661800008560012819221600089200128430180000856001285562160008920012879418000085600128927216000892001291651800008560012929121600089200129529180000856001296552160008920012989318000085600130019216000892001302571800008560013038321600089200130621180000856001307472160008920013098518000085600131118216000892001313561800008560013148221600089200131720180000856001318462160008920013208418000085600132210216000892001324481800008560013257421600089200132812180000856001329452160008920013318318000085600133309216000892001335471800008560013367321600089200133911180000856001340372160008920013427518000085600134401216000892001346391800008560013476521600089200135003180000856001351362160008920013537418000085600135500216000892001357381800008560013586421600089200136102180000856001362282160008920013646618000085600136592216000892001368301800008560013695621600089200137194180000856001373272160008920013756518000085600137691216000892001379291800008560013805521600089200138293180000856001384192160008920013865718000085600138783216000892001390211800008560013915421600089200139392180000856001395182160008920013975618000085600139882216000892001401201800008560014024621600089200140484180000856001406102160008920014084818000085600140974216000892001412121800008560014134521600089200141583180000856001417092160008920014194718000085600142073216000892001423111800008560014243721600089200142675180000856001428012160008920014303918000085600143172216000892001434101800008560014353621600089200143774180000856001439002160008920014413818000085600144264216000892001445021800008560014462821600089200144866180000856001449922160008920014523018000085600145363216000892001456011800008560014572721600089200145965180000856001460912160008920014632918000085600146455216000892001466931800008560014681921600089200147057180000856001471832160008920014742118000085600">>,
       <<(0 - 19768), "07078119768080224083763629760820000848201800008560008494214400082000089195180000856000892861440008200008955918000085600089657144000820000899301800008560009002114400082000091022180000856000911131440008200009138618000085600091477144000820000983251800008560009844614400082000098687180000856000988131440008200009900118000085600099156144000820000993731800008560009952014400082000099751180000856000999331440008200010011518000085600100297144000820001004791800008560010066814400082000100850180000856001010111440008200010121418000085600101376144000820001015781800008560010174114400082000101942180000856001021241440008200010230618000085600102495144000820001026701800008560010285914400082000103048180000856001032021440008200010336318000085600103573144000820001037271800008560010393714400082000104147180000856001043011440008200010451118000085600104665144000820001048751800008560010502914400082000105239180000856001054001440008200010560318000085600105764144000820001059181800008560010612814400082000106282180000856001064921440008200010665318000085600106856144000820001070171800008560010722014400082000107395180000856001075911440008200010776618000085600107955180000820001081301800008560010831918000082000108494180000856001086831800008200010885818000085600109047180000820001092221800008560010941118000082000109593180000856001097751800008200010995718000085600110146180000820001103141800008560011052418000082000110678180000856001108951800008200011104918000085600111259180000820001114131800008560011162318000082000111784180000856001119871800008200011214818000085600112351180000820001125051800008560011345018000082000113583180000856001138141800008200011395418000085600114178180000820001143111800008560011454218000082000114682180000856001149131800008200011505318000085600115291180000820001154311800008560011564818000082000115774180000856001160121800008200011613818000085600116376180000820001165021800008560011674018000082000116873180000856001171111800008200011723718000085600117475180000820001176011800008560011783918000082000117965180000856001182031800008200011832918000085600118567180000820001187001800008560011893818000082000119064180000856001193021800008200011942818000085600119666180000820001197921800008560012003018000082000120156180000856001203941800008200012052018000085600120758180000820001208911800008560012112918000082000121255180000856001214931800008200012161918000085600121857180000820001219831800008560012222118000082000122347180000856001225851800008200012271818000085600122956180000820001230821800008560012332018000082000123446180000856001236841800008200012381018000085600124048180000820001241741800008560012441218000082000124538180000856001247761800008200012490918000085600125147180000820001252731800008560012551118000082000125637180000856001258751800008200012600118000085600126239180000820001263651800008560012660318000082000126729180000856001269671800008200012710018000085600127338180000820001274641800008560012770218000082000127828180000856001280661800008200012819218000085600128430180000820001285561800008560012879418000082000128927180000856001291651800008200012929118000085600129529180000820001296551800008560012989318000082000130019180000856001302571800008200013038318000085600130621180000820001307471800008560013098518000082000131118180000856001313561800008200013148218000085600131720180000820001318461800008560013208418000082000132210180000856001324481800008200013257418000085600132812180000820001329451800008560013318318000082000133309180000856001335471800008200013367318000085600133911180000820001340371800008560013427518000082000134401180000856001346391800008200013476518000085600135003180000820001351361800008560013537418000082000135500180000856001357381800008200013586418000085600136102180000820001362281800008560013646618000082000136592180000856001368301800008200013695618000085600137194180000820001373271800008560013756518000082000137691180000856001379291800008200013805518000085600138293180000820001384191800008560013865718000082000138783180000856001390211800008200013915418000085600139392180000820001395181800008560013975618000082000139882180000856001401201800008200014024618000085600140484180000820001406101800008560014084818000082000140974180000856001412121800008200014134518000085600141583180000820001417091800008560014194718000082000142073180000856001423111800008200014243718000085600142675180000820001428011800008560014303918000082000143172180000856001434101800008200014353618000085600143774180000820001439001800008560014413818000082000144264180000856001445021800008200014462818000085600144866180000820001449921800008560014523018000082000145363180000856001456011800008200014572718000085600145965180000820001460911800008560014632918000082000146455180000856001466931800008200014681918000085600147057180000820001471831800008560014742118000082000">>,
       <<(0 - 26632), "082468252000748000844552160007840008570821600074800085876216000784000860282160007480008621125200078400089886216000748000923432520007120010000028800074800109593324000784001097962880007480010995732400078400110160288000748001103213240007840011052428800074800">>,
       <<(0 - 20790), "0685456480007840008109628800082000081306252000784000814602880008200008167025200078400089812288000820000911412520007840009171528800082000091869252000784000920792880008200009223325200078400092443288000820000925972520007840009281428800082000092961252000784000931782880008200009333225200078400093542288000820000936962520007840009390628800082000094060252000784000942702880008200009442425200078400094634288000820000948232520007840009500528800082000095187252000784000953692880008200009552325200078400095733288000820000958872520007840009609728800082000096279252000784000964612880008200009665025200078400096832288000820000970142520007840009719628800082000097742252000784000990232880008200009920525200078400099387288000820000995692520007840009975128800082000099933252000784001001152880008200010029725200078400100479288000820001006682520007840010085028800082000101032252000784001012142880008200010139625200078400101466288000820001017602520007840010187928800082000102124252000784001023062880008200010249525200078400102670288000820001028592520007840010304128800082000103223252000784001034052880008200010358725200078400103769288000820001039512520007840010413328800082000104315252000784001044972880008200010468625200078400104861288000820001050502520007840010523228800082000105414252000784001055962880008200010577825200078400105960288000820001061422520007840010630328800082000106506252000784001066672880008200010687725200078400107031288000820001072412520007840010739528800082000107605252000784001077662880008200011345025200078400113583288000820001138212520007840011394728800082000114185252000784001143112880008200011454925200078400114682288000820001149202520007840011504628800082000115284252000784001154102880008200011564825200078400115774288000820001160122520007840011613828800082000116376252000784001165022880008200011674025200078400116873288000820001171112520007840011723728800082000117475252000784001176012880008200011783925200078400117965288000820001182032520007840011832928800082000118567252000784001187002880008200011893825200078400119064288000820001193022520007840011942828800082000119666252000784001197922880008200012003025200078400120156288000820001203942520007840012052028800082000120758252000784001208912880008200012112925200078400121255288000820001214932520007840012161928800082000121857252000784001219832880008200012222125200078400122347288000820001225852520007840012271828800082000122956252000784001230822880008200012332025200078400123446288000820001236842520007840012381028800082000124048252000784001241742880008200012441225200078400124538288000820001247762520007840012490928800082000125147252000784001252732880008200012551125200078400125637288000820001258752520007840012600128800082000126239252000784001263652880008200012660325200078400126729288000820001269672520007840012710028800082000127338252000784001274642880008200012770225200078400127828288000820001280662520007840012819228800082000128430252000784001285562880008200012879425200078400128927288000820001291652520007840012929128800082000129529252000784001296552880008200012989325200078400130019288000820001302572520007840013038328800082000130621252000784001307472880008200013098525200078400131118288000820001313562520007840013148228800082000131720252000784001318462880008200013208425200078400132210288000820001324482520007840013257428800082000132812252000784001329452880008200013318325200078400133309288000820001335472520007840013367328800082000133911252000784001340372880008200013427525200078400134401288000820001346392520007840013476528800082000135003252000784001351362880008200013537425200078400135500288000820001357382520007840013586428800082000136102252000784001362282880008200013646625200078400136592288000820001368302520007840013695628800082000137194252000784001373272880008200013756525200078400137691288000820001379292520007840013805528800082000138293252000784001384192880008200013865725200078400138783288000820001390212520007840013915428800082000139392252000784001395182880008200013975625200078400139882288000820001401202520007840014024628800082000140484252000784001406102880008200014084825200078400140974288000820001412122520007840014134528800082000141583252000784001417092880008200014194725200078400142073288000820001423112520007840014243728800082000142675252000784001428012880008200014303925200078400143172288000820001434102520007840014353628800082000143774252000784001439002880008200014413825200078400144264288000820001445022520007840014462828800082000144866252000784001449922880008200014523025200078400145363288000820001456012520007840014572728800082000145965252000784001460912880008200014632925200078400146455288000820001466932520007840014681928800082000147057252000784001471832880008200014742125200078400">>,
       <<(0 - 20723), "0685456480007840008109628800082000081306252000784000814602880008200008167025200078400089812288000820000911412520007840009317828800082000093332252000784000942702880008200009442425200078400094634288000820000947882520007840009500528800082000095159252000784000953692880008200009552325200078400095733288000820000958872520007840009609728800082000096251252000784000964612880008200009661525200078400096832288000820000997512520008560009993321600082000100115252000856001002972160008200010047925200085600100668216000820001008502520008560010103221600082000101214252000856001013962160008200010187925200085600102124216000820001132402520008560011345021600082000113583252000856001138212160008200011394725200085600114185216000820001143112520008560011454921600082000114682252000856001149202160008200011504625200085600115284216000820001154102520008560011564821600082000115774252000856001160122160008200011613825200085600116376216000820001165022520008560011674021600082000116873252000856001171112160008200011723725200085600117475216000820001176012520008560011783921600082000117965252000856001182032160008200011832925200085600118567216000820001187002520008560011893821600082000119064252000856001193022160008200011942825200085600119666216000820001197922520008560012003021600082000120156252000856001203942160008200012052025200085600120758216000820001208912520008560012112921600082000121255252000856001214932160008200012161925200085600121857216000820001219832520008560012222121600082000122347252000856001225852160008200012271825200085600122956216000820001230822520008560012332021600082000123446252000856001236842160008200012381025200085600124048216000820001241742520008560012441221600082000124538252000856001247762160008200012490925200085600125147216000820001252732520008560012551121600082000125637252000856001258752160008200012600125200085600126239216000820001263652520008560012660321600082000126729252000856001269672160008200012710025200085600127338216000820001274642520008560012770221600082000127828252000856001280662160008200012819225200085600128430216000820001285562520008560012879421600082000128927252000856001291652160008200012929125200085600129529216000820001296552520008560012989321600082000130019252000856001302572160008200013038325200085600130621216000820001307472520008560013098521600082000131118252000856001313562160008200013148225200085600131720216000820001318462520008560013208421600082000132210252000856001324482160008200013257425200085600132812216000820001329452520008560013318321600082000133309252000856001335472160008200013367325200085600133911216000820001340372520008560013427521600082000134401252000856001346392160008200013476525200085600135003216000820001351362520008560013537421600082000135500252000856001357382160008200013586425200085600136102216000820001362282520008560013646621600082000136592252000856001368302160008200013695625200085600137194216000820001373272520008560013756521600082000137691252000856001379292160008200013805525200085600138293216000820001384192520008560013865721600082000138783252000856001390212160008200013915425200085600139392216000820001395182520008560013975621600082000139882252000856001401202160008200014024625200085600140484216000820001406102520008560014084821600082000140974252000856001412122160008200014134525200085600141583216000820001417092520008560014194721600082000142073252000856001423112160008200014243725200085600142675216000820001428012520008560014303921600082000143172252000856001434102160008200014353625200085600143774216000820001439002520008560014413821600082000144264252000856001445022160008200014462825200085600144866216000820001449922520008560014523021600082000145363252000856001456012160008200014572725200085600145965216000820001460912520008560014632921600082000146455252000856001466932160008200014681925200085600147057216000820001471832520008560014742121600082000">>,
       <<(0 - 20947), "0685456480007840008109628800082000081306252000784000814602880008200008167025200078400089812288000820000911412520007840009464121600082000094788252000784000950052880008200009515925200078400095369288000820000955232520007840009573328800082000095887252000784000960972880008200009625125200078400096461288000820000966152520007840009683228800082000097014252000784000971962880008200009737825200078400097560288000820000977422520007840009792428800082000098106252000784000982882880008200009884125200078400099023288000820000992052520007840009938728800082000099569252000784000997512880008200009993325200078400100115288000820001002972520007840010047928800082000100668252000784001008502880008200010103225200078400101214288000820001013962520007840010146628800082000101760252000784001018792880008200010212425200078400102306288000820001024952520007840010267028800082000113450252000784001135832880008200011394725200085600114185216000820001143112520008560011454921600082000114682252000856001149202160008200011504625200085600115284216000820001154102520008560011564821600082000115774252000856001160122160008200011613825200085600116376216000820001165022520008560011674021600082000116873252000856001171112160008200011723725200085600117475216000820001176012520008560011783921600082000117965252000856001182032160008200011832925200085600118567216000820001187002520008560011893821600082000119064252000856001193022160008200011942825200085600119666216000820001197922520008560012003021600082000120156252000856001203942160008200012052025200085600120758216000820001208912520008560012112921600082000121255252000856001214932160008200012161925200085600121857216000820001219832520008560012222121600082000122347252000856001225852160008200012271825200085600122956216000820001230822520008560012332021600082000123446252000856001236842160008200012381025200085600124048216000820001241742520008560012441221600082000124538252000856001247762160008200012490925200085600125147216000820001252732520008560012551121600082000125637252000856001258752160008200012600125200085600126239216000820001263652520008560012660321600082000126729252000856001269672160008200012710025200085600127338216000820001274642520008560012770221600082000127828252000856001280662160008200012819225200085600128430216000820001285562520008560012879421600082000128927252000856001291652160008200012929125200085600129529216000820001296552520008560012989321600082000130019252000856001302572160008200013038325200085600130621216000820001307472520008560013098521600082000131118252000856001313562160008200013148225200085600131720216000820001318462520008560013208421600082000132210252000856001324482160008200013257425200085600132812216000820001329452520008560013318321600082000133309252000856001335472160008200013367325200085600133911216000820001340372520008560013427521600082000134401252000856001346392160008200013476525200085600135003216000820001351362520008560013537421600082000135500252000856001357382160008200013586425200085600136102216000820001362282520008560013646621600082000136592252000856001368302160008200013695625200085600137194216000820001373272520008560013756521600082000137691252000856001379292160008200013805525200085600138293216000820001384192520008560013865721600082000138783252000856001390212160008200013915425200085600139392216000820001395182520008560013975621600082000139882252000856001401202160008200014024625200085600140484216000820001406102520008560014084821600082000140974252000856001412122160008200014134525200085600141583216000820001417092520008560014194721600082000142073252000856001423112160008200014243725200085600142675216000820001428012520008560014303921600082000143172252000856001434102160008200014353625200085600143774216000820001439002520008560014413821600082000144264252000856001445022160008200014462825200085600144866216000820001449922520008560014523021600082000145363252000856001456012160008200014572725200085600145965216000820001460912520008560014632921600082000146455252000856001466932160008200014681925200085600147057216000820001471832520008560014742121600082000">>,
       <<(0 - 20823), "06854564800078400081096288000820000813062520007840008146028800082000081670252000784000898122880008200009114125200078400094641216000820000947882520007840009500528800082000095159252000784000953692880008200009552325200078400095733288000820000958872520007840009609728800082000096251252000784000964612880008200009661525200078400096832288000820000970142520007840009719628800082000097378252000784000975602880008200009774225200078400097924288000820000992052520007840009938728800082000099569252000784000997512880008560009993321600082000100115252000856001002972160008200011345025200078400113583288000820001138212520007840011394728800082000114185252000784001143112880008200011454925200078400114682288000820001149202520007840011504628800082000115284252000784001154102880008200011564825200078400115774288000820001160122520007840011613828800082000116376252000784001165022880008200011674025200078400116873288000820001171112520007840011723728800082000117475252000784001176012880008200011783925200078400117965288000820001182032520007840011832928800082000118567252000784001187002880008200011893825200078400119064288000820001193022520007840011942828800082000119666252000784001197922880008200012003025200078400120156288000820001203942520007840012052028800082000120758252000784001208912880008200012112925200078400121255288000820001214932520007840012161928800082000121857252000784001219832880008200012222125200078400122347288000820001225852520007840012271828800082000122956252000784001230822880008200012332025200078400123446288000820001236842520007840012381028800082000124048252000784001241742880008200012441225200078400124538288000820001247762520007840012490928800082000125147252000784001252732880008200012551125200078400125637288000820001258752520007840012600128800082000126239252000784001263652880008200012660325200078400126729288000820001269672520007840012710028800082000127338252000784001274642880008200012770225200078400127828288000820001280662520007840012819228800082000128430252000784001285562880008200012879425200078400128927288000820001291652520007840012929128800082000129529252000784001296552880008200012989325200078400130019288000820001302572520007840013038328800082000130621252000784001307472880008200013098525200078400131118288000820001313562520007840013148228800082000131720252000784001318462880008200013208425200078400132210288000820001324482520007840013257428800082000132812252000784001329452880008200013318325200078400133309288000820001335472520007840013367328800082000133911252000784001340372880008200013427525200078400134401288000820001346392520007840013476528800082000135003252000784001351362880008200013537425200078400135500288000820001357382520007840013586428800082000136102252000784001362282880008200013646625200078400136592288000820001368302520007840013695628800082000137194252000784001373272880008200013756525200078400137691288000820001379292520007840013805528800082000138293252000784001384192880008200013865725200078400138783288000820001390212520007840013915428800082000139392252000784001395182880008200013975625200078400139882288000820001401202520007840014024628800082000140484252000784001406102880008200014084825200078400140974288000820001412122520007840014134528800082000141583252000784001417092880008200014194725200078400142073288000820001423112520007840014243728800082000142675252000784001428012880008200014303925200078400143172288000820001434102520007840014353628800082000143774252000784001439002880008200014413825200078400144264288000820001445022520007840014462828800082000144866252000784001449922880008200014523025200078400145363288000820001456012520007840014572728800082000145965252000784001460912880008200014632925200078400146455288000820001466932520007840014681928800082000147057252000784001471832880008200014742125200078400">>,
       <<(0 - 20416), "068545648000784000810962880008200008130625200078400081460288000820000816702520007840008981228800082000091141252000784000942702880008200009975125200085600099933216000820001001152520008560010029721600082000100479252000856001006682160008200010085025200085600101032216000820001132402520008560011345021600082000113583252000856001138212160008200011394725200085600114185216000820001143112520008560011454921600082000114682252000856001149202160008200011504625200085600115284216000820001154102520008560011564821600082000115774252000856001160122160008200011613825200085600116376216000820001165022520008560011674021600082000116873252000856001171112160008200011723725200085600117475216000820001176012520008560011783921600082000117965252000856001182032160008200011832925200085600118567216000820001187002520008560011893821600082000119064252000856001193022160008200011942825200085600119666216000820001197922520008560012003021600082000120156252000856001203942160008200012052025200085600120758216000820001208912520008560012112921600082000121255252000856001214932160008200012161925200085600121857216000820001219832520008560012222121600082000122347252000856001225852160008200012271825200085600122956216000820001230822520008560012332021600082000123446252000856001236842160008200012381025200085600124048216000820001241742520008560012441221600082000124538252000856001247762160008200012490925200085600125147216000820001252732520008560012551121600082000125637252000856001258752160008200012600125200085600126239216000820001263652520008560012660321600082000126729252000856001269672160008200012710025200085600127338216000820001274642520008560012770221600082000127828252000856001280662160008200012819225200085600128430216000820001285562520008560012879421600082000128927252000856001291652160008200012929125200085600129529216000820001296552520008560012989321600082000130019252000856001302572160008200013038325200085600130621216000820001307472520008560013098521600082000131118252000856001313562160008200013148225200085600131720216000820001318462520008560013208421600082000132210252000856001324482160008200013257425200085600132812216000820001329452520008560013318321600082000133309252000856001335472160008200013367325200085600133911216000820001340372520008560013427521600082000134401252000856001346392160008200013476525200085600135003216000820001351362520008560013537421600082000135500252000856001357382160008200013586425200085600136102216000820001362282520008560013646621600082000136592252000856001368302160008200013695625200085600137194216000820001373272520008560013756521600082000137691252000856001379292160008200013805525200085600138293216000820001384192520008560013865721600082000138783252000856001390212160008200013915425200085600139392216000820001395182520008560013975621600082000139882252000856001401202160008200014024625200085600140484216000820001406102520008560014084821600082000140974252000856001412122160008200014134525200085600141583216000820001417092520008560014194721600082000142073252000856001423112160008200014243725200085600142675216000820001428012520008560014303921600082000143172252000856001434102160008200014353625200085600143774216000820001439002520008560014413821600082000144264252000856001445022160008200014462825200085600144866216000820001449922520008560014523021600082000145363252000856001456012160008200014572725200085600145965216000820001460912520008560014632921600082000146455252000856001466932160008200014681925200085600147057216000820001471832520008560014742121600082000">>,
       <<(0 - 21007), "068545648000784000810962880008200008130625200078400081460288000820000816702520007840008981228800082000091141252000784000913512880008200009150525200078400093906288000820000940602520007840009427028800082000094424252000784000946412160008200009478825200078400095005288000820000951592520007840009536928800082000095523252000784000957332880008200009588725200078400096097288000820000962512520007840009646128800082000096650252000784000968322880008200009697925200078400097196288000820000973782520007840009756028800082000097742252000784000979242880008200009975125200085600099933216000820001001152520008560010029721600082000113450252000784001135832880008200011394725200085600114185216000820001143112520008560011454921600082000114682252000856001149202160008200011504625200085600115284216000820001154102520008560011564821600082000115774252000856001160122160008200011613825200085600116376216000820001165022520008560011674021600082000116873252000856001171112160008200011723725200085600117475216000820001176012520008560011783921600082000117965252000856001182032160008200011832925200085600118567216000820001187002520008560011893821600082000119064252000856001193022160008200011942825200085600119666216000820001197922520008560012003021600082000120156252000856001203942160008200012052025200085600120758216000820001208912520008560012112921600082000121255252000856001214932160008200012161925200085600121857216000820001219832520008560012222121600082000122347252000856001225852160008200012271825200085600122956216000820001230822520008560012332021600082000123446252000856001236842160008200012381025200085600124048216000820001241742520008560012441221600082000124538252000856001247762160008200012490925200085600125147216000820001252732520008560012551121600082000125637252000856001258752160008200012600125200085600126239216000820001263652520008560012660321600082000126729252000856001269672160008200012710025200085600127338216000820001274642520008560012770221600082000127828252000856001280662160008200012819225200085600128430216000820001285562520008560012879421600082000128927252000856001291652160008200012929125200085600129529216000820001296552520008560012989321600082000130019252000856001302572160008200013038325200085600130621216000820001307472520008560013098521600082000131118252000856001313562160008200013148225200085600131720216000820001318462520008560013208421600082000132210252000856001324482160008200013257425200085600132812216000820001329452520008560013318321600082000133309252000856001335472160008200013367325200085600133911216000820001340372520008560013427521600082000134401252000856001346392160008200013476525200085600135003216000820001351362520008560013537421600082000135500252000856001357382160008200013586425200085600136102216000820001362282520008560013646621600082000136592252000856001368302160008200013695625200085600137194216000820001373272520008560013756521600082000137691252000856001379292160008200013805525200085600138293216000820001384192520008560013865721600082000138783252000856001390212160008200013915425200085600139392216000820001395182520008560013975621600082000139882252000856001401202160008200014024625200085600140484216000820001406102520008560014084821600082000140974252000856001412122160008200014134525200085600141583216000820001417092520008560014194721600082000142073252000856001423112160008200014243725200085600142675216000820001428012520008560014303921600082000143172252000856001434102160008200014353625200085600143774216000820001439002520008560014413821600082000144264252000856001445022160008200014462825200085600144866216000820001449922520008560014523021600082000145363252000856001456012160008200014572725200085600145965216000820001460912520008560014632921600082000146455252000856001466932160008200014681925200085600147057216000820001471832520008560014742121600082000">>,
       <<(0 - 20785), "06854564800078400081096288000820000813062520007840008146028800082000081670252000784000898122880008200009114125200078400091351288000820000915052520007840009171528800082000091869252000784000920792880008200009223325200078400092443288000820000925972520007840009281428800082000092961252000784000931782880008200009333225200078400093542288000820000936962520007840009390628800082000094060252000784000942702880008200009442425200078400094634288000820000948232520007840009500528800082000095187252000784000953692880008200009552325200078400095733288000820000958872520007840009609728800082000096251252000784000964612880008200009661525200078400096832288000820000997512520008560009993321600082000100115252000856001002972160008200011345025200078400113583288000856001138212160008200011394725200085600114185216000820001143112520008560011454921600082000114682252000856001149202160008200011504625200085600115284216000820001154102520008560011564821600082000115774252000856001160122160008200011613825200085600116376216000820001165022520008560011674021600082000116873252000856001171112160008200011723725200085600117475216000820001176012520008560011783921600082000117965252000856001182032160008200011832925200085600118567216000820001187002520008560011893821600082000119064252000856001193022160008200011942825200085600119666216000820001197922520008560012003021600082000120156252000856001203942160008200012052025200085600120758216000820001208912520008560012112921600082000121255252000856001214932160008200012161925200085600121857216000820001219832520008560012222121600082000122347252000856001225852160008200012271825200085600122956216000820001230822520008560012332021600082000123446252000856001236842160008200012381025200085600124048216000820001241742520008560012441221600082000124538252000856001247762160008200012490925200085600125147216000820001252732520008560012551121600082000125637252000856001258752160008200012600125200085600126239216000820001263652520008560012660321600082000126729252000856001269672160008200012710025200085600127338216000820001274642520008560012770221600082000127828252000856001280662160008200012819225200085600128430216000820001285562520008560012879421600082000128927252000856001291652160008200012929125200085600129529216000820001296552520008560012989321600082000130019252000856001302572160008200013038325200085600130621216000820001307472520008560013098521600082000131118252000856001313562160008200013148225200085600131720216000820001318462520008560013208421600082000132210252000856001324482160008200013257425200085600132812216000820001329452520008560013318321600082000133309252000856001335472160008200013367325200085600133911216000820001340372520008560013427521600082000134401252000856001346392160008200013476525200085600135003216000820001351362520008560013537421600082000135500252000856001357382160008200013586425200085600136102216000820001362282520008560013646621600082000136592252000856001368302160008200013695625200085600137194216000820001373272520008560013756521600082000137691252000856001379292160008200013805525200085600138293216000820001384192520008560013865721600082000138783252000856001390212160008200013915425200085600139392216000820001395182520008560013975621600082000139882252000856001401202160008200014024625200085600140484216000820001406102520008560014084821600082000140974252000856001412122160008200014134525200085600141583216000820001417092520008560014194721600082000142073252000856001423112160008200014243725200085600142675216000820001428012520008560014303921600082000143172252000856001434102160008200014353625200085600143774216000820001439002520008560014413821600082000144264252000856001445022160008200014462825200085600144866216000820001449922520008560014523021600082000145363252000856001456012160008200014572725200085600145965216000820001460912520008560014632921600082000146455252000856001466932160008200014681925200085600147057216000820001471832520008560014742121600082000">>,
       <<0, "0937910000007120010085036000074800101032324000712001012143600007480010139632400071200101578360000748001017603240007120010194236000074800102124324000712001023063600007480010249532400071200102670360000748001028593240007120010304136000074800103223324000712001034053600007840010358728800074800103769324000784001039512880007480010413332400078400104315288000748001044973240007840010468628800074800104861324000784001050502880007480010523232400078400105414288000748001055963240007840010577828800074800105960324000784001061422880007480010630332400078400106506288000748001066673240007840010687728800074800107031324000784001072412880007480010739532400078400107605288000748001077663240007840010796928800074800108130324000784001083332880007480010849432400078400108704288000748001088583240007840010906828800074800109222324000784001094322880007480010959332400078400109796288000748001099573240007840011016028800074800110321324000784001105242880007480011068532400078400110895288000748001110493240007840011125928800074800111413324000784001116232880007480011178432400078400111987288000748001121483240007840011235128800074800112512324000784001127222880007480011287632400078400113086288000748001132403240007840011345028800074800113583324000784001138212880007480011394732400078400114185288000748001143113240007840011454928800074800114682324000784001149202880007480011504632400078400115284288000748001154103240007840011564828800074800115774324000784001160122880007480011613832400078400116376288000748001165023240007840011674028800074800116873324000784001171112880007480011723732400078400117475288000748001176013240007840011783928800074800117965324000784001182032880007480011832932400078400118567288000748001187003240007840011893828800074800119064324000784001193022880007480011942832400078400119666288000748001197923240007840012003028800074800120156324000784001203942880007480012052032400078400120758288000748001208913240007840012112928800074800121255324000784001214932880007480012161932400078400121857288000748001219833240007840012222128800074800122347324000784001225852880007480012271832400078400122956288000748001230823240007840012332028800074800123446324000784001236842880007480012381032400078400124048288000748001241743240007840012441228800074800124538324000784001247762880007480012490932400078400125147288000748001252733240007840012551128800074800125637324000784001258752880007480012600132400078400126239288000748001263653240007840012660328800074800126729324000784001269672880007480012710032400078400127338288000748001274643240007840012770228800074800127828324000784001280662880007480012819232400078400128430288000748001285563240007840012879428800074800128927324000784001291652880007480012929132400078400129529288000748001296553240007840012989328800074800130019324000784001302572880007480013038332400078400130621288000748001307473240007840013098528800074800131118324000784001313562880007480013148232400078400131720288000748001318463240007840013208428800074800132210324000784001324482880007480013257432400078400132812288000748001329453240007840013318328800074800133309324000784001335472880007480013367332400078400133911288000748001340373240007840013427528800074800134401324000784001346392880007480013476532400078400135003288000748001351363240007840013537428800074800135500324000784001357382880007480013586432400078400136102288000748001362283240007840013646628800074800136592324000784001368302880007480013695632400078400137194288000748001373273240007840013756528800074800137691324000784001379292880007480013805532400078400138293288000748001384193240007840013865728800074800138783324000784001390212880007480013915432400078400139392288000748001395183240007840013975628800074800139882324000784001401202880007480014024632400078400140484288000748001406103240007840014084828800074800140974324000784001412122880007480014134532400078400141583288000748001417093240007840014194728800074800142073324000784001423112880007480014243732400078400142675288000748001428013240007840014303928800074800143172324000784001434102880007480014353632400078400143774288000748001439003240007840014413828800074800144264324000784001445022880007480014462832400078400144866288000748001449923240007840014523028800074800145363324000784001456012880007480014572732400078400145965288000748001460913240007840014632928800074800146455324000784001466932880007480014681932400078400147057288000748001471833240007840014742128800074800">>,
       <<0, "0899850000008560009114121600082000100850252000856001010322160008200010121425200085600101396216000820001015782520008560010176021600082000101942252000856001021242160008200010230625200085600102495216000820001026702520008560010285921600082000103041252000856001032232160008200010340525200085600103587216000820001037692520008560010395121600082000104133252000856001043152160008200010449725200085600104686216000820001048612520008560010505021600082000105232252000856001054142160008200010559625200085600105778216000820001059602520008560010614221600082000106303252000856001065062160008200010666725200085600106877216000820001070312520008560010724121600082000107395252000856001076052160008200010776625200085600107969216000820001081302520008560010833321600082000108494252000856001087042160008200010885825200085600109068216000820001092222520008560010943221600082000109593252000856001097962160008200010995725200085600110160216000820001103212520008560011052421600082000110685252000856001108952160007840011104928800082000111413252000856001116232160008200011178425200085600111987216000820001121482520008560011235121600082000112512252000856001127222160008200011287625200085600113086216000820001132402520008560011345021600082000113583252000856001138212160008200011394725200085600114185216000820001143112520008560011454921600082000114682252000856001149202160008200011504625200085600115284216000820001154102520008560011564821600082000115774252000856001160122160008200011613825200085600116376216000820001165022520008560011674021600082000116873252000856001171112160008200011723725200085600117475216000820001176012520008560011783921600082000117965252000856001182032160008200011832925200085600118567216000820001187002520008560011893821600082000119064252000856001193022160008200011942825200085600119666216000820001197922520008560012003021600082000120156252000856001203942160008200012052025200085600120758216000820001208912520008560012112921600082000121255252000856001214932160008200012161925200085600121857216000820001219832520008560012222121600082000122347252000856001225852160008200012271825200085600122956216000820001230822520008560012332021600082000123446252000856001236842160008200012381025200085600124048216000820001241742520008560012441221600082000124538252000856001247762160008200012490925200085600125147216000820001252732520008560012551121600082000125637252000856001258752160008200012600125200085600126239216000820001263652520008560012660321600082000126729252000856001269672160008200012710025200085600127338216000820001274642520008560012770221600082000127828252000856001280662160008200012819225200085600128430216000820001285562520008560012879421600082000128927252000856001291652160008200012929125200085600129529216000820001296552520008560012989321600082000130019252000856001302572160008200013038325200085600130621216000820001307472520008560013098521600082000131118252000856001313562160008200013148225200085600131720216000820001318462520008560013208421600082000132210252000856001324482160008200013257425200085600132812216000820001329452520008560013318321600082000133309252000856001335472160008200013367325200085600133911216000820001340372520008560013427521600082000134401252000856001346392160008200013476525200085600135003216000820001351362520008560013537421600082000135500252000856001357382160008200013586425200085600136102216000820001362282520008560013646621600082000136592252000856001368302160008200013695625200085600137194216000820001373272520008560013756521600082000137691252000856001379292160008200013805525200085600138293216000820001384192520008560013865721600082000138783252000856001390212160008200013915425200085600139392216000820001395182520008560013975621600082000139882252000856001401202160008200014024625200085600140484216000820001406102520008560014084821600082000140974252000856001412122160008200014134525200085600141583216000820001417092520008560014194721600082000142073252000856001423112160008200014243725200085600142675216000820001428012520008560014303921600082000143172252000856001434102160008200014353625200085600143774216000820001439002520008560014413821600082000144264252000856001445022160008200014462825200085600144866216000820001449922520008560014523021600082000145363252000856001456012160008200014572725200085600145965216000820001460912520008560014632921600082000146455252000856001466932160008200014681925200085600147057216000820001471832520008560014742121600082000">>,
       <<(0 - 18430), "078846184300820001014662520008560010176021600082000101879252000856001021242160008200010230625200085600102495216000820001026702520008560010285921600082000103041252000856001032232160008200010340525200085600103587216000820001037692520008560010395121600082000104133252000856001043152160008200010449725200085600104686216000820001048612520008560010505021600082000">>,
       <<54139, "062671018730677390746647546107120008981236000074800091141324000712000997513600007480009993332400071200100115360000748001002973240007120010047936000074800100668324000712001008503600007480010103232400071200101214360000748001013963240007120010146636000074800101760324000712001018793600007480010212432400071200102306360000748001024953240007120010267036000074800102859324000712001030413600007480010322332400071200103405360000748001035873240007120010413336000074800104315324000712001044973600007480010468632400071200104861360000748001050503240006760010523239600071200105414360000676001055963960007120010577836000067600105960396000712001061423600006760010630339600071200106506360000676001066673960007120010687736000067600107031396000712001072413600006760010739539600071200107605360000676001077663960007120010796936000067600108130396000712001083333600006760010849439600071200108704360000676001088583960007120010906836000067600109222396000712001094323600006760010959339600071200109796360000676001099573960007120011016036000067600110321396000712001105243600006760011068539600071200110895360000676001110493960007120011125936000067600111413396000712001116233600006760011178439600071200111987360000676001121483960007120011235136000067600112512396000712001127223600006760011287639600071200113086360000676001132403960007120011345036000067600113583396000712001138213600006760011394739600071200114185360000676001143113960007120011454936000067600114682396000712001149203600006760011504639600071200115284360000676001154103960007120011564836000067600115774396000712001160123600006760011613839600071200116376360000676001165023960007120011674036000067600116873396000712001171113600006760011723739600071200117475360000676001176013960007120011783936000067600117965396000712001182033600006760011832939600071200118567360000676001187003960007120011893836000067600119064396000712001193023600006760011942839600071200119666360000676001197923960007120012003036000067600120156396000712001203943600006760012052039600071200120758360000676001208913960007120012112936000067600121255396000712001214933600006760012161939600071200121857360000676001219833960007120012222136000067600122347396000712001225853600006760012271839600071200122956360000676001230823960007120012332036000067600123446396000712001236843600006760012381039600071200124048360000676001241743960007120012441236000067600124538396000712001247763600006760012490939600071200125147360000676001252733960007120012551136000067600125637396000712001258753600006760012600139600071200126239360000676001263653960007120012660336000067600126729396000712001269673600006760012710039600071200127338360000676001274643960007120012770236000067600127828396000712001280663600006760012819239600071200128430360000676001285563960007120012879436000067600128927396000712001291653600006760012929139600071200129529360000676001296553960007120012989336000067600130019396000712001302573600006760013038339600071200130621360000676001307473960007120013098536000067600131118396000712001313563600006760013148239600071200131720360000676001318463960007120013208436000067600132210396000712001324483600006760013257439600071200132812360000676001329453960007120013318336000067600133309396000712001335473600006760013367339600071200133911360000676001340373960007120013427536000067600134401396000712001346393600006760013476539600071200135003360000676001351363960007120013537436000067600135500396000712001357383600006760013586439600071200136102360000676001362283960007120013646636000067600136592396000712001368303600006760013695639600071200137194360000676001373273960007120013756536000067600137691396000712001379293600006760013805539600071200138293360000676001384193960007120013865736000067600138783396000712001390213600006760013915439600071200139392360000676001395183960007120013975636000067600139882396000712001401203600006760014024639600071200140484360000676001406103960007120014084836000067600140974396000712001412123600006760014134539600071200141583360000676001417093960007120014194736000067600142073396000712001423113600006760014243739600071200142675360000676001428013960007120014303936000067600143172396000712001434103600006760014353639600071200143774360000676001439003960007120014413836000067600144264396000712001445023600006760014462839600071200144866360000676001449923960007120014523036000067600145363396000712001456013600006760014572739600071200145965360000676001460913960007120014632936000067600146455396000712001466933600006760014681939600071200147057360000676001471833960007120014742136000067600">>,
       <<(0 - 20582), "06854564800078400081096288000820000813062520007840008146028800082000081670252000784000822232880008200008234625200078400089524288000820000896782520007840008981228800082000091141252000784000913512166008200009138625200078400092814288000820000929612520007840009317828800082000093332252000784000935422880008200009369625200078400093906288000820000940602520007840009427028800082000094424252000784000946342880008200009478825200078400095005288000820000951872520007840009536928800082000095551252000784000957332880008200009591525200078400096097288000820000962792520007840009646128800082000096650252000784000968322880008200009938725200085600099569216000820000997512520008560009993321600082000100115252000856001002972160008200010047925200085600100668216000820001008502520008560010103221600082000101214252000856001013962160008200010187925200085600102124216000820001023062520008560010249521600082000102670252000856001028592160008200010304125200085600103223216000820001034052520008560010358721600082000103769252000856001039512160008200010413325200085600104315216000820001044972520008560010468621600082000104861252000856001050502160008200010523225200085600105414216000820001055962520008560010577821600082000105960252000856001061422160008200010630325200085600106506216000820001066672520008560010687721600082000107031252000856001072412160008200010739525200085600107605216000820001077662520008560010796921600082000108130252000856001083332160008200010849425200085600108704216000820001088582520008560010906821600082000109222252000856001094322160008200010959325200085600109796216000820001099572520008560011016021600082000110321252000856001105242160008200011068525200085600110895216000820001110492520008560011125921600082000111413252000856001116232160008200011178425200085600111987216000820001121482520008560011235121600082000112512252000856001127222160008200011287625200085600113086216000820001132402520008560011345021600082000113583252000856001138212160008200011394725200085600114185216000820001143112520008560011454921600082000114682252000856001149202160008200011504625200085600115284216000820001154102520008560011564821600082000115774252000856001160122160008200011613825200085600116376216000820001165022520008560011674021600082000116873252000856001171112160008200011723725200085600117475216000820001176012520008560011783921600082000117965252000856001182032160008200011832925200085600118567216000820001187002520008560011893821600082000119064252000856001193022160008200011942825200085600119666216000820001197922520008560012003021600082000120156252000856001203942160008200012052025200085600120758216000820001208912520008560012112921600082000121255252000856001214932160008200012161925200085600121857216000820001219832520008560012222121600082000122347252000856001225852160008200012271825200085600122956216000820001230822520008560012332021600082000123446252000856001236842160008200012381025200085600124048216000820001241742520008560012441221600082000124538252000856001247762160008200012490925200085600125147216000820001252732520008560012551121600082000125637252000856001258752160008200012600125200085600126239216000820001263652520008560012660321600082000126729252000856001269672160008200012710025200085600127338216000820001274642520008560012770221600082000127828252000856001280662160008200012819225200085600128430216000820001285562520008560012879421600082000128927252000856001291652160008200012929125200085600129529216000820001296552520008560012989321600082000130019252000856001302572160008200013038325200085600130621216000820001307472520008560013098521600082000131118252000856001313562160008200013148225200085600131720216000820001318462520008560013208421600082000132210252000856001324482160008200013257425200085600132812216000820001329452520008560013318321600082000133309252000856001335472160008200013367325200085600133911216000820001340372520008560013427521600082000134401252000856001346392160008200013476525200085600135003216000820001351362520008560013537421600082000135500252000856001357382160008200013586425200085600136102216000820001362282520008560013646621600082000136592252000856001368302160008200013695625200085600137194216000820001373272520008560013756521600082000137691252000856001379292160008200013805525200085600138293216000820001384192520008560013865721600082000138783252000856001390212160008200013915425200085600139392216000820001395182520008560013975621600082000139882252000856001401202160008200014024625200085600140484216000820001406102520008560014084821600082000140974252000856001412122160008200014134525200085600141583216000820001417092520008560014194721600082000142073252000856001423112160008200014243725200085600142675216000820001428012520008560014303921600082000143172252000856001434102160008200014353625200085600143774216000820001439002520008560014413821600082000144264252000856001445022160008200014462825200085600144866216000820001449922520008560014523021600082000145363252000856001456012160008200014572725200085600145965216000820001460912520008560014632921600082000146455252000856001466932160008200014681925200085600147057216000820001471832520008560014742121600082000">>,
       <<(0 - 20364), "068545648000784000810962880008200008130625200078400081460288000820000816702520007840008981228800082000091141252000784000993872880008200009956925200078400099751288000820000999332520007840010011528800082000100297252000784001004792880008200010066825200078400100850288000820001010322520007840010121428800082000101396252000784001014662880008200010176025200078400101879288000820001021242520007840010230628800082000102495252000784001026702880008200010285925200078400103041288000820001032232520007840010340528800082000103587252000784001037692880008200010395125200078400104133288000820001043152520007840010449728800082000104686252000784001048612880008200010505025200078400105232288000820001054142520007840010559628800082000105778252000784001059602880008200010614225200078400106303288000820001065062520007840010666728800082000106877252000784001070312880008200010724125200078400107395288000820001076052520007840010776628800082000107969252000784001081302880008200010833325200078400108494288000820001087042520007840010885828800082000109068252000784001092222880008200010943225200078400109593288000820001097962520007840010995728800082000110160252000784001103212880008200011052425200078400110685288000820001108952520007840011104928800082000111413252000856001116232160008200011178425200085600111987216000820001121482520008560011235121600082000112512252000856001127222160008200011287625200085600113086216000820001132402520008560011345021600082000113583252000856001138212160008200011394725200085600114185216000820001143112520008560011454921600082000114682252000856001149202160008200011504625200085600115284216000820001154102520008560011564821600082000115774252000856001160122160008200011613825200085600116376216000820001165022520008560011674021600082000116873252000856001171112160008200011723725200085600117475216000820001176012520008560011783921600082000117965252000856001182032160008200011832925200085600118567216000820001187002520008560011893821600082000119064252000856001193022160008200011942825200085600119666216000820001197922520008560012003021600082000120156252000856001203942160008200012052025200085600120758216000820001208912520008560012112921600082000121255252000856001214932160008200012161925200085600121857216000820001219832520008560012222121600082000122347252000856001225852160008200012271825200085600122956216000820001230822520008560012332021600082000123446252000856001236842160008200012381025200085600124048216000820001241742520008560012441221600082000124538252000856001247762160008200012490925200085600125147216000820001252732520008560012551121600082000125637252000856001258752160008200012600125200085600126239216000820001263652520008560012660321600082000126729252000856001269672160008200012710025200085600127338216000820001274642520008560012770221600082000127828252000856001280662160008200012819225200085600128430216000820001285562520008560012879421600082000128927252000856001291652160008200012929125200085600129529216000820001296552520008560012989321600082000130019252000856001302572160008200013038325200085600130621216000820001307472520008560013098521600082000131118252000856001313562160008200013148225200085600131720216000820001318462520008560013208421600082000132210252000856001324482160008200013257425200085600132812216000820001329452520008560013318321600082000133309252000856001335472160008200013367325200085600133911216000820001340372520008560013427521600082000134401252000856001346392160008200013476525200085600135003216000820001351362520008560013537421600082000135500252000856001357382160008200013586425200085600136102216000820001362282520008560013646621600082000136592252000856001368302160008200013695625200085600137194216000820001373272520008560013756521600082000137691252000856001379292160008200013805525200085600138293216000820001384192520008560013865721600082000138783252000856001390212160008200013915425200085600139392216000820001395182520008560013975621600082000139882252000856001401202160008200014024625200085600140484216000820001406102520008560014084821600082000140974252000856001412122160008200014134525200085600141583216000820001417092520008560014194721600082000142073252000856001423112160008200014243725200085600142675216000820001428012520008560014303921600082000143172252000856001434102160008200014353625200085600143774216000820001439002520008560014413821600082000144264252000856001445022160008200014462825200085600144866216000820001449922520008560014523021600082000145363252000856001456012160008200014572725200085600145965216000820001460912520008560014632921600082000146455252000856001466932160008200014681925200085600147057216000820001471832520008560014742121600082000">>,
       <<(0 - 15865), "074154590650856000898951440008920009114118000085600">>,
       <<(0 - 16356), "0860421635608724408620012756085600">>,
       <<(0 - 18492), "07078118492081484077563185160820000883121800008560008840214400082000088579180000856000887611440008200008894318000085600089125144000820001058441800008560010593414400082000106209180000856001062991440008200010730518000085600107395144000820001087661800008560010885614400082000">>,
       <<(0 - 28378), "068545720000712000810963600007480008130632400071200081460360000748000816703240007120008981236000074800091141324000712000920373606007480009233032400071200092814324000748000929613240007120009317832400074800093332324000712000935423240007480009369632400071200093906324000748000940603240007120009427032400074800094424324000712000946343240007480009478832400071200095005324000748000951593240007120009536932400074800095523324000712000957333240007480009588732400071200096097324000748000962513240007120009646132400074800096615324000712000968323240007480009697932400071200097196324000748000973783240007120009756032400074800097742324000712000979243240007480009810632400071200098288324000748000984773240007120009865232400074800098841324000712000990233600007480009920532400071200099387360000748000995693240007120009975136000074800099933324000712001001153600007480010029732400071200100479360000748001006683240007120010085036000074800101032324000712001012143600007480010139632400071200101466360000748001017603240007120010187936000074800102124324000712001023063600007480010249532400071200102670360000748001028593240007120010304136000074800103223324000712001034053600007480010358732400071200103769360000748001039513240007120010413336000074800104315324000712001044973600007480010468632400071200104861360000748001050503240007120010523236000074800105414324000712001055963600007480010577832400071200105960360000748001061423240007120010630336000074800106506324000712001066673600007480010687732400071200107031360000748001072413240007120010739536000074800107605324000712001077663600007480010796932400071200108130360000748001083333240007120010849436000074800108704324000712001088583600007480010906832400071200109222360000748001094323240007120010959336000074800109796324000712001099573600007480011016032400071200110321360000748001105243240007120011068536000074800110895324000712001110493600007480011125932400071200111413360000748001116233240007120011178436000074800111987324000712001121483600007480011235132400071200112512360000748001127223240007120011287636000074800113086324000712001132403600007480011345032400071200113583360000748001138213240007120011394736000074800114185324000712001143113600007480011454932400071200114682360000748001149203240007120011504636000074800115284324000712001154103600007480011564832400071200115774360000748001160123240007120011613836000074800116376324000712001165023600007480011674032400071200116873360000748001171113240007120011723736000074800117475324000712001176013600007480011783932400071200117965360000748001182033240007120011832936000074800118567324000712001187003600007480011893832400071200119064360000748001193023240007120011942836000074800119666324000712001197923600007480012003032400071200120156360000748001203943240007120012052036000074800120758324000712001208913600007480012112932400071200121255360000748001214933240007120012161936000074800121857324000712001219833600007480012222132400071200122347360000748001225853240007120012271836000074800122956324000712001230823600007480012332032400071200123446360000748001236843240007120012381036000074800124048324000712001241743600007480012441232400071200124538360000748001247763240007120012490936000074800125147324000712001252733600007480012551132400071200125637360000748001258753240007120012600136000074800126239324000712001263653600007480012660332400071200126729360000748001269673240007120012710036000074800127338324000712001274643600007480012770232400071200127828360000748001280663240007120012819236000074800128430324000712001285563600007480012879432400071200128927360000748001291653240007120012929136000074800129529324000712001296553600007480012989332400071200130019360000748001302573240007120013038336000074800130621324000712001307473600007480013098532400071200131118360000748001313563240007120013148236000074800131720324000712001318463600007480013208432400071200132210360000748001324483240007120013257436000074800132812324000712001329453600007480013318332400071200133309360000748001335473240007120013367336000074800133911324000712001340373600007480013427532400071200134401360000748001346393240007120013476536000074800135003324000712001351363600007480013537432400071200135500360000748001357383240007120013586436000074800136102324000712001362283600007480013646632400071200136592360000748001368303240007120013695636000074800137194324000712001373273600007480013756532400071200137691360000748001379293240007120013805536000074800138293324000712001384193600007480013865732400071200138783360000748001390213240007120013915436000074800139392324000712001395183600007480013975632400071200139882360000748001401203240007120014024636000074800140484324000712001406103600007480014084832400071200140974360000748001412123240007120014134536000074800141583324000712001417093600007480014194732400071200142073360000748001423113240007120014243736000074800142675324000712001428013600007480014303932400071200143172360000748001434103240007120014353636000074800143774324000712001439003600007480014413832400071200144264360000748001445023240007120014462836000074800144866324000712001449923600007480014523032400071200145363360000748001456013240007120014572736000074800145965324000712001460913600007480014632932400071200146455360000748001466933240007120014681936000074800147057324000712001471833600007480014742132400071200">>,
       <<(0 - 8572), "0795460857208920008603050400092800086211072000892000863961080009280008657607200089200092664108000928000928001080008920009302910800092800093150072000892000933941080009280009351607200089200093760108000928000938500720008920009778510800092800097868072000892000982041080009280009826307200089200098508108000928000985980720008920009884310800092800098963072000892000992081080009280009932907200089200105784108000928001059170720008920010614110800092800106253072000892001065061080009280010661107200089200106863108000928001069680720008920010722710800092800107346072000892001094181080009280010953707200089200110867108000928001110140720008920011123810800092800111252072000892001116091080009280011173507200089200">>,
       <<(0 - 20708), "07078120708079288087024207120784001012162160008200010187218000078400103363216000820001034621800007840010372721600082000103826180000784001080353600008200010830218000078400108401216000820001098621800007840011288321600082000113058180000784001132682880008200011342221600078400">>,
       <<(0 - 14404), "07954614404085600086030540000892000862111080008560008639614400089200086576108000856000926641440008920009280014400085600093029144000892000931501080008560009339414400089200093516108000856000937601440008920009385010800085600097785144000892000978681080008560009820414400089200098263108000856000985081440008920009859810800085600098843144000892000989631080008560009920814400089200099329108000856001057841440008920010591710800085600106141144000892001062531080008560010650614400089200106611108000856001086901440008920010881610800085600">>,
       <<(0 - 14660), "078570146600856001037481440008920010392310800085600">>,
       <<(0 - 23400), "08246821600078400106667288000820001068772520007840010959328800082000109796252000784001099572880008200011016025200078400110321288000820001105242520007840011068528800082000110895252000784001110492880008200011125925200078400111448288000820001115952520007840011178428800082000111987252000784001121482880008200011235125200078400112512288000820001127222520007840011287628800082000113086252000784001132402880008200011345025200078400113604288000820001138142520007840011397528800082000114178252000784001143392880008200011454225200078400114682288000820001149202520007840011504628800082000115284252000784001154102880008200011564825200078400115774288000820001160122520007840011613828800082000116376252000784001165022880008200011674025200078400116873288000820001171112520007840011723728800082000117475252000784001176012880008200011783925200078400117965288000820001182032520007840011832928800082000118567252000784001187002880008200011893825200078400119064288000820001193022520007840011942828800082000119666252000784001197922880008200012003025200078400120156288000820001203942520007840012052028800082000120758252000784001208912880008200012112925200078400121255288000820001214932520007840012161928800082000121857252000784001219832880008200012222125200078400122347288000820001225852520007840012271828800082000122956252000784001230822880008200012332025200078400123446288000820001236842520007840012381028800082000124048252000784001241742880008200012441225200078400124538288000820001247762520007840012490928800082000125147252000784001252732880008200012551125200078400125637288000820001258752520007840012600128800082000126239252000784001263652880008200012660325200078400126729288000820001269672520007840012710028800082000127338252000784001274642880008200012770225200078400127828288000820001280662520007840012819228800082000128430252000784001285562880008200012879425200078400128927288000820001291652520007840012929128800082000129529252000784001296552880008200012989325200078400130019288000820001302572520007840013038328800082000130621252000784001307472880008200013098525200078400131118288000820001313562520007840013148228800082000131720252000784001318462880008200013208425200078400132210288000820001324482520007840013257428800082000132812252000784001329452880008200013318325200078400133309288000820001335472520007840013367328800082000133911252000784001340372880008200013427525200078400134401288000820001346392520007840013476528800082000135003252000784001351362880008200013537425200078400135500288000820001357382520007840013586428800082000136102252000784001362282880008200013646625200078400136592288000820001368302520007840013695628800082000137194252000784001373272880008200013756525200078400137691288000820001379292520007840013805528800082000138293252000784001384192880008200013865725200078400138783288000820001390212520007840013915428800082000139392252000784001395182880008200013975625200078400139882288000820001401202520007840014024628800082000140484252000784001406102880008200014084825200078400140974288000820001412122520007840014134528800082000141583252000784001417092880008200014194725200078400142073288000820001423112520007840014243728800082000142675252000784001428012880008200014303925200078400143172288000820001434102520007840014353628800082000143774252000784001439002880008200014413825200078400144264288000820001445022520007840014462828800082000144866252000784001449922880008200014523025200078400145363288000820001456012520007840014572728800082000145965252000784001460912880008200014632925200078400146455288000820001466932520007840014681928800082000147057252000784001471832880008200014742125200078400">>,
       <<(0 - 25540), "082468252000748000844552160007840008570821600074800085876216000784000860282160007480008621125200078400089886216000748000923432520007120010000028800074800109593324000784001097962880007480010995732400078400110160288000748001103213240007840011052428800074800110685324000784001108952880007480011104932400078400111259288000748001114483240007840011159528800074800111784324000784001119872880007480011214832400078400112351288000748001125123240007840011272228800074800112876324000784001130862880007480011324032400078400113450288000748001136043240007840011381428800074800113975324000784001141782880007480011433932400078400114542288000748001147033240007840011491328800074800115067324000784001152772880007480011543132400078400115641288000748001158023240007840011600528800074800116166324000784001163692880007480011653032400078400116733288000748001168943240007840011710428800074800117258324000784001174682880007480011762232400078400117832288000748001179933240007840011819628800074800118357324000784001185602880007480011872132400078400118931288000748001190853240007840011929528800074800">>,
       <<(0 - 21027), "06921564227078400081096288000820000813062520007840008146028800082000081670252000784000898122880008200009114125200078400091351288000820000915052520007840009865228800082000098841252000784000997512880008200010139625200078400101466288000820001017602520007840010187928800082000102124252000784001023062880008200010249525200078400102670288000820001028592520007840010304128800082000103223252000784001034052880008200010358725200078400103769288000820001039512520007840010413328800082000104315252000784001044972880008200010468625200078400104861288000820001050502520007840010523228800082000105414252000784001055962880008200010577825200078400105960288000820001061422520007840010630328800082000106506252000784001066672880008200010687725200078400107031288000820001072412520007840010739528800082000107605252000784001077662880008200010796925200078400108130288000820001083332520007840010849428800082000108704252000784001088582880008200010906825200078400109222288000820001094322520007840010959328800082000109796252000784001099572880008200011016025200078400110321288000820001105242520007840011068528800082000110895252000784001110492880008200011125925200078400111413288000820001116232520007840011178428800082000111987252000784001121482880008200011235125200078400112512288000820001127222520007840011287628800082000113086252000784001132402880008200011345025200078400113583288000820001138212520007840011394728800082000114185252000784001143112880008200011454925200078400114682288000820001149202520007840011504628800082000115284252000784001154102880008200011564825200078400115774288000820001160122520007840011613828800082000116376252000784001165022880008200011674025200078400116873288000820001171112520007840011723728800082000117475252000784001176012880008200011783925200078400117965288000820001182032520007840011832928800082000118567252000784001187002880008200011893825200078400119064288000820001193022520007840011942828800082000119666252000784001197922880008200012003025200078400120156288000820001203942520007840012052028800082000120758252000784001208912880008200012112925200078400121255288000820001214932520007840012161928800082000121857252000784001219832880008200012222125200078400122347288000820001225852520007840012271828800082000122956252000784001230822880008200012332025200078400123446288000820001236842520007840012381028800082000124048252000784001241742880008200012441225200078400124538288000820001247762520007840012490928800082000125147252000784001252732880008200012551125200078400125637288000820001258752520007840012600128800082000126239252000784001263652880008200012660325200078400126729288000820001269672520007840012710028800082000127338252000784001274642880008200012770225200078400127828288000820001280662520007840012819228800082000128430252000784001285562880008200012879425200078400128927288000820001291652520007840012929128800082000129529252000784001296552880008200012989325200078400130019288000820001302572520007840013038328800082000130621252000784001307472880008200013098525200078400131118288000820001313562520007840013148228800082000131720252000784001318462880008200013208425200078400132210288000820001324482520007840013257428800082000132812252000784001329452880008200013318325200078400133309288000820001335472520007840013367328800082000133911252000784001340372880008200013427525200078400134401288000820001346392520007840013476528800082000135003252000784001351362880008200013537425200078400135500288000820001357382520007840013586428800082000136102252000784001362282880008200013646625200078400136592288000820001368302520007840013695628800082000137194252000784001373272880008200013756525200078400137691288000820001379292520007840013805528800082000138293252000784001384192880008200013865725200078400138783288000820001390212520007840013915428800082000139392252000784001395182880008200013975625200078400139882288000820001401202520007840014024628800082000140484252000784001406102880008200014084825200078400140974288000820001412122520007840014134528800082000141583252000784001417092880008200014194725200078400142073288000820001423112520007840014243728800082000142675252000784001428012880008200014303925200078400143172288000820001434102520007840014353628800082000143774252000784001439002880008200014413825200078400144264288000820001445022520007840014462828800082000144866252000784001449922880008200014523025200078400145363288000820001456012520007840014572728800082000145965252000784001460912880008200014632925200078400146455288000820001466932520007840014681928800082000147057252000784001471832880008200014742125200078400">>,
       <<(0 - 21508), "082468216000784001043742160008200010471818000078400109593288000820001097962520007840010995728800082000110160252000784001103212880008200011052425200078400110685288000820001108952520007840011104928800082000111259252000784001114482880008200011159525200078400111784288000820001119872520007840011214828800082000112351252000784001125122880008200011272225200078400112876288000820001130862520007840011324028800082000113450252000784001136042880008200011381425200078400113975288000820001141782520007840011433928800082000114542252000784001147032880008200011491325200078400115067288000820001152772520007840011543128800082000115641252000784001158022880008200011600525200078400116166288000820001163692520007840011653028800082000116733252000784001168942880008200011710425200078400117258288000820001174682520007840011762228800082000117832252000784001179932880008200011819625200078400118357288000820001185602520007840011872128800082000118931252000784001190852880008200011929525200078400">>,
       <<54822, "0626710187306842207466474778071200089812360000748000911413240007120009975136000074800099933324000712001001153600007480010029732400071200100479360000748001006683240007120010085036000074800101032324000712001012143600007480010139632400071200101466360000748001017603240007120010187936000074800102124324000712001023063600007480010249532400071200102670360000748001028593240007120010304136000074800103223324000712001034053600007480010358732400071200103769360000748001039513240007120010413336000074800104315324000712001044973600007480010468632400071200104861360000748001050503240007120011674036000067600116873396000712001171113600006760011723739600071200117475360000676001176013960007120011791636000067600117965396000712001182033600006760011832939600071200118567360000676001187003960007120011893836000067600119064396000712001193023600006760011942839600071200119666360000676001197923960007120012003036000067600120156396000712001203943600006760012052039600071200120758360000676001208913960007120012112936000067600121255396000712001214933600006760012161939600071200121857360000676001219833960007120012222136000067600122347396000712001225853600006760012271839600071200122956360000676001230823960007120012332036000067600123446396000712001236843600006760012381039600071200124048360000676001241743960007120012441236000067600124538396000712001247763600006760012490939600071200125147360000676001252733960007120012551136000067600125637396000712001258753600006760012600139600071200126239360000676001263653960007120012660336000067600126729396000712001269673600006760012710039600071200127338360000676001274643960007120012770236000067600127828396000712001280663600006760012819239600071200128430360000676001285563960007120012879436000067600128927396000712001291653600006760012929139600071200129529360000676001296553960007120012989336000067600130019396000712001302573600006760013038339600071200130621360000676001307473960007120013098536000067600131118396000712001313563600006760013148239600071200131720360000676001318463960007120013208436000067600132210396000712001324483600006760013257439600071200132812360000676001329453960007120013318336000067600133309396000712001335473600006760013367339600071200133911360000676001340373960007120013427536000067600134401396000712001346393600006760013476539600071200135003360000676001351363960007120013537436000067600135500396000712001357383600006760013586439600071200136102360000676001362283960007120013646636000067600136592396000712001368303600006760013695639600071200137194360000676001373273960007120013756536000067600137691396000712001379293600006760013805539600071200138293360000676001384193960007120013865736000067600138783396000712001390213600006760013915439600071200139392360000676001395183960007120013975636000067600139882396000712001401203600006760014024639600071200140484360000676001406103960007120014084836000067600140974396000712001412123600006760014134539600071200141583360000676001417093960007120014194736000067600142073396000712001423113600006760014243739600071200142675360000676001428013960007120014303936000067600143172396000712001434103600006760014353639600071200143774360000676001439003960007120014413836000067600144264396000712001445023600006760014462839600071200144866360000676001449923960007120014523036000067600145363396000712001456013600006760014572739600071200145965360000676001460913960007120014632936000067600146455396000712001466933600006760014681939600071200147057360000676001471833960007120014742136000067600">>,
       <<(0 - 23796), "0824682520007480008445521600078400085708216000748000858762160007840008602821600074800086211252000784000887122160008200008885218000078400089385216000820000894981800007840009048721600082000090624180000784000927372160008200009290518000078400109593288000820001097962520007840010995728800082000110160252000784001103212880008200011052425200078400110685288000820001108952520007840011104928800082000111259252000784001114482880008200011159525200078400111784288000820001119872520007840011214828800082000112351252000784001125122880008200011272225200078400112876288000820001130862520007840011324028800082000113450252000784001136042880008200011381425200078400113975288000820001141782520007840011433928800082000114542252000784001147032880008200011491325200078400115067288000820001152772520007840011543128800082000115641252000784001158022880008200011600525200078400116166288000820001163692520007840011653028800082000116733252000784001168942880008200011710425200078400117258288000820001174682520007840011762228800082000117832252000784001179932880008200011819625200078400118357288000820001185602520007840011872128800082000118931252000784001190852880008200011929525200078400">>,
       <<(0 - 13480), "078584134800856001037731440008920010630318000092800106506144000892001066671800009280010687714400089200107031180000928001072411440008920010739518000092800107605144000892001077661800009280010796914400089200108130180000928001083331440008920010849418000092800108704144000892001088581800009280010906814400089200109222180000928001094321440008920010959318000092800109796144000892001099571800009280011016014400089200110321180000928001105241440008920011068518000092800110895144000892001110491800009280011125914400089200111413180000928001116231440008920011178418000092800111987144000892001121481800009280011235114400089200112512180000928001127221440008920011287618000092800113086144000892001132401800009280011345014400089200113583180000928001138211440008920011394718000092800114185144000892001143111800009280011454914400089200114682180000928001149201440008920011504618000092800115284144000892001154101800009280011564814400089200115774180000928001160121440008920011613818000092800116376144000892001165021800009280011674014400089200116873180000928001171111440008920011723718000092800117475144000892001176011800009280011783914400089200117965180000928001182031440008920011832918000092800118567144000892001187001800009280011893814400089200119064180000928001193021440008920011942818000092800119666144000892001197921800009280012003014400089200120156180000928001203941440008920012052018000092800120758144000892001208911800009280012112914400089200121255180000928001214931440008920012161918000092800121857144000892001219831800009280012222114400089200122347180000928001225851440008920012271818000092800122956144000892001230821800009280012332014400089200123446180000928001236841440008920012381018000092800124048144000892001241741800009280012441214400089200124538180000928001247761440008920012490918000092800125147144000892001252731800009280012551114400089200125637180000928001258751440008920012600118000092800126239144000892001263651800009280012660314400089200126729180000928001269671440008920012710018000092800127338144000892001274641800009280012770214400089200127828180000928001280661440008920012819218000092800128430144000892001285561800009280012879414400089200128927180000928001291651440008920012929118000092800129529144000892001296551800009280012989314400089200130019180000928001302571440008920013038318000092800130621144000892001307471800009280013098514400089200131118180000928001313561440008920013148218000092800131720144000892001318461800009280013208414400089200132210180000928001324481440008920013257418000092800132812144000892001329451800009280013318314400089200133309180000928001335471440008920013367318000092800133911144000892001340371800009280013427514400089200134401180000928001346391440008920013476518000092800135003144000892001351361800009280013537414400089200135500180000928001357381440008920013586418000092800136102144000892001362281800009280013646614400089200136592180000928001368301440008920013695618000092800137194144000892001373271800009280013756514400089200137691180000928001379291440008920013805518000092800138293144000892001384191800009280013865714400089200138783180000928001390211440008920013915418000092800139392144000892001395181800009280013975614400089200139882180000928001401201440008920014024618000092800140484144000892001406101800009280014084814400089200140974180000928001412121440008920014134518000092800141583144000892001417091800009280014194714400089200142073180000928001423111440008920014243718000092800142675144000892001428011800009280014303914400089200143172180000928001434101440008920014353618000092800143774144000892001439001800009280014413814400089200144264180000928001445021440008920014462818000092800144866144000892001449921800009280014523014400089200145363180000928001456011440008920014572718000092800145965144000892001460911800009280014632914400089200146455180000928001466931440008920014681918000092800147057144000892001471831800009280014742114400089200">>,
       <<(0 - 15548), "068566155480820000753281800008560008111021600089200081306180000856000866471800008920008673814400085600087011180000892000871021440008560008737518000089200087466144000856000877391800008920008783014400085600088103180000892000881941440008560008846718000089200088558144000856000888231800008920008894214400085600089181180000892000893061440008560008953118000089200089677144000856000898122160008920009114118000085600091351216000892000915051800008560009171521600089200091869180000856000920792160008920009223318000085600092443216000892000925971800008560009281421600089200092961180000856000931782160008920009333218000085600093542216000892000936961800008560009390621600089200094060180000856000942702160008920009442418000085600094634216000892000947881800008560009500521600089200095159180000856000953692160008920009555118000085600095733216000892000959151800008560009609721600089200096279180000856000964612160008920009665018000085600096832216000892000970141800008560009719621600089200097378180000856000975602160008920009774218000085600097924216000892000981061800008560009828821600089200098477180000856000986522160008920009884118000085600099023216000892000992051800008560009938721600089200099569180000856000997512160008920009993318000085600100115216000892001002971800008560010047921600089200100668180000856001008502160008920010103218000085600101578216000892001017601800008560010194221600089200102124180000856001023062160008920010249518000085600102670216000892001028591800008560010304121600089200103223180000856001034052160008920010358718000085600103769216000892001039511800008560010413321600089200104315180000856001044972160008920010468618000085600104861216000892001050501800008560010523221600089200105414180000856001055962160008920010577818000085600105960216000892001061421800008560010630321600089200106506180000856001066672160008920010687718000085600107031216000892001072411800008560010739521600089200107605180000856001077662160008920010796918000085600108130216000892001083331800008560010849414460089200108704108600856001088581446008920010906810860085600109222144600892001094321086008560010959314460089200109796108600856001099571446008920011016010860085600110321144600892001105241086008560011068514460089200110895108600856001110491446008920011125910860085600111413144600892001116231086008560011178414460089200111987108600856001121481446008920011235110860085600112512144600892001127221086008560011287614460089200113086108600856001132401446008920011345010860085600113583216000892001138211800008560011394721600089200114185180000856001143112160008920011454918000085600114682216000892001149201800008560011504621600089200115284180000856001154102160008920011564818000085600115774216000892001160121800008560011613821600089200116376180000856001165022160008920011674018000085600116873216000892001171111800008560011723721600089200117475180000856001176012160008920011783918000085600117965216000892001182031800008560011832921600089200118567180000856001187002160008920011893818000085600119064216000892001193021800008560011942821600089200119666180000856001197922160008920012003018000085600120156216000892001203941800008560012052021600089200120758180000856001208912160008920012112918000085600121255216000892001214931800008560012161921600089200121857180000856001219832160008920012222118000085600122347216000892001225851800008560012271821600089200122956180000856001230822160008920012332018000085600123446216000892001236841800008560012381021600089200124048180000856001241742160008920012441218000085600124538216000892001247761800008560012490921600089200125147180000856001252732160008920012551118000085600125637216000892001258751800008560012600121600089200126239180000856001263652160008920012660318000085600126729216000892001269671800008560012710021600089200127338180000856001274642160008920012770218000085600127828216000892001280661800008560012819221600089200128430180000856001285562160008920012879418000085600128927216000892001291651800008560012929121600089200129529180000856001296552160008920012989318000085600130019216000892001302571800008560013038321600089200130621180000856001307472160008920013098518000085600131118216000892001313561800008560013148221600089200131720180000856001318462160008920013208418000085600132210216000892001324481800008560013257421600089200132812180000856001329452160008920013318318000085600133309216000892001335471800008560013367321600089200133911180000856001340372160008920013427518000085600134401216000892001346391800008560013476521600089200135003180000856001351362160008920013537418000085600135500216000892001357381800008560013586421600089200136102180000856001362282160008920013646618000085600136592216000892001368301800008560013695621600089200137194180000856001373272160008920013756518000085600137691216000892001379291800008560013805521600089200138293180000856001384192160008920013865718000085600138783216000892001390211800008560013915421600089200139392180000856001395182160008920013975618000085600139882216000892001401201800008560014024621600089200140484180000856001406102160008920014084818000085600140974216000892001412121800008560014134521600089200141583180000856001417092160008920014194718000085600142073216000892001423111800008560014243721600089200142675180000856001428012160008920014303918000085600143172216000892001434101800008560014353621600089200143774180000856001439002160008920014413818000085600144264216000892001445021800008560014462821600089200144866180000856001449922160008920014523018000085600145363216000892001456011800008560014572721600089200145965180000856001460912160008920014632918000085600146455216000892001466931800008560014681921600089200147057180000856001471832160008920014742118000085600">>,
       <<(0 - 24076), "082468216000784001066672880008200010687725200078400109593288000820001097962520007840010995728800082000110160252000784001103212880008200011052425200078400110685288000820001108952520007840011104928800082000111259252000784001114482880008200011159525200078400111784288000820001119872520007840011214828800082000112351252000784001125122880008200011272225200078400112876288000820001130862520007840011324028800082000113450252000784001136042880008200011381425200078400113975288000820001141782520007840011433928800082000114542252000784001147032880008200011491325200078400115067288000820001152772520007840011543128800082000115641252000784001158022880008200011600525200078400116166288000820001163692520007840011653028800082000116733252000784001168942880008200011710425200078400117258288000820001174682520007840011762228800082000117832252000784001179932880008200011819625200078400118357288000820001185602520007840011872128800082000118931252000784001190852880008200011929525200078400">>,
       <<(0 - 13491), "08185813491085600083106144000892000832891080008740008347212600089200083654108000874000838371260008920008401910800087400086787126000892000869411080008740008715112600089200087305108000874000875151260008920008766910800087400087879126000892000880331080008740008825012600089200088397108000874000886141260008920008876110800087400088950126000892000891321080008740008934212600089200089496108000874000896201260008920009012010800091000090210090000892000961251080009100009630009000089200096363108000928000964120720008920009826710800092800098442072000892000994161080009100009960409000089200100114108000928001001640720008920010084310800092800100927072000892001014731080009460010152905400091000101704090000892001018161080009280010191407200089200102544108000928001026210720008920010289410800092800102985072000892001032721080009280010334907200089200103405108000928001037270720008920010655610800092800106632072000892001069191080009280010700307200089200107241108000928001073600720008920010759810800092800107731072000892001079691080009280010809507200089200108326108000928001084590720008920011268010800092800112869144000892001130651800009280011321914400089200113422180000928001135831440008920011379318000092800113947144000892001141571800009280011431114400089200114521180000928001146821440008920011488518000092800115046144000892001152491800009280011541014400089200115620180000928001157741440008920011598418000092800116138144000892001163481800009280011650214400089200">>,
       <<(0 - 19052), "07260719052082000081110252000856000813062160008200008146116200085600081670144000820000818592520008560008200614400082000082237252000856000823602160008200008260125200085600082727216000820000829652520008560008309121600082000083322252000856000834622160008200008368625200085600083826216000820000840502520008560008419021600082000084414252000856000845612160008200008477825200085600084932216000820000851422520008560008529621600082000085506252000856000856602160008200008587025200085600086024216000820000862412520008560008638821600082000086605252000856000867592160008200008696925200085600087123216000820000873332520008560008748721600082000087697252000856000878512160008200008806125200085600088215216000820000884252520008560008857921600082000088796252000856000889432160008200008916025200085600091141216000820000913512520008560009150521600082000091715180000856000918691440008200009207918000085600092233144000820000924431800008560009266014400082000092814252000856000930242160008200009317825200085600093332216000820000935422520008560009369621600082000093906252000856000940602160008200009427025200085600094424216000820000946342520008560009478821600082000095005252000856000951592160008200009536925200085600095551216000820000957332520008560009591521600082000096097252000856000962792160008200009646125200085600096650216000820000968322520008560009701421600082000097196252000856000973782160008200009756025200085600097742216000820000979242520008560009810621600082000098288252000856000984772160008200009865225200085600098841216000820000990232520008560009920521600082000099387252000856000995692160008200009975125200085600099933216000820001001152520008560010029721600082000100479252000856001006682160008200010085025200085600101032216000820001012142520008560010139621600082000101578252000856001017602160008200010194225200085600102124216000820001023062520008560010249521600082000102670252000856001028592160008200010304125200085600103223216000820001034052520008560010358721600082000103769252000856001039512160008200010413325200085600104315216000820001044972520008560010468621600082000104861252000856001050502160008200010523225200085600105414216000820001055962520008560010577821600082000105960252000856001061422160008200010630325200085600106506216000820001066672520008560010687721600082000107031252000856001072412160008200010739525200085600107605216000820001077662520008560010796921600082000108130252000856001083332160008200010849425200085600108704216000820001088582520008560010906821600082000109222252000856001094322160008200010959325200085600109796216000820001099572520008560011016021600082000110321252000856001105242160008200011068525200085600110895216000820001110492520008560011125921600082000111413252000856001116232160008200011178425200085600111987216000820001121482520008560011235121600082000112512252000856001127222160008200011287625200085600113086216000820001132402520008560011345021600082000113583252000856001138212160008200011394725200085600114185216000820001143112520008560011454921600082000114682252000856001149202160008200011504625200085600115284216000820001154102520008560011564821600082000115774252000856001160122160008200011613825200085600116376216000820001165022520008560011674021600082000116873252000856001171112160008200011723725200085600117475216000820001176012520008560011783921600082000117965252000856001182032160008200011832925200085600118567216000820001187002520008560011893821600082000119064252000856001193022160008200011942825200085600119666216000820001197922520008560012003021600082000120156252000856001203942160008200012052025200085600120758216000820001208912520008560012112921600082000121255252000856001214932160008200012161925200085600121857216000820001219832520008560012222121600082000122347252000856001225852160008200012271825200085600122956216000820001230822520008560012332021600082000123446252000856001236842160008200012381025200085600124048216000820001241742520008560012441221600082000124538252000856001247762160008200012490925200085600125147216000820001252732520008560012551121600082000125637252000856001258752160008200012600125200085600126239216000820001263652520008560012660321600082000126729252000856001269672160008200012710025200085600127338216000820001274642520008560012770221600082000127828252000856001280662160008200012819225200085600128430216000820001285562520008560012879421600082000128927252000856001291652160008200012929125200085600129529216000820001296552520008560012989321600082000130019252000856001302572160008200013038325200085600130621216000820001307472520008560013098521600082000131118252000856001313562160008200013148225200085600131720216000820001318462520008560013208421600082000132210252000856001324482160008200013257425200085600132812216000820001329452520008560013318321600082000133309252000856001335472160008200013367325200085600133911216000820001340372520008560013427521600082000134401252000856001346392160008200013476525200085600135003216000820001351362520008560013537421600082000135500252000856001357382160008200013586425200085600136102216000820001362282520008560013646621600082000136592252000856001368302160008200013695625200085600137194216000820001373272520008560013756521600082000137691252000856001379292160008200013805525200085600138293216000820001384192520008560013865721600082000138783252000856001390212160008200013915425200085600139392216000820001395182520008560013975621600082000139882252000856001401202160008200014024625200085600140484216000820001406102520008560014084821600082000140974252000856001412122160008200014134525200085600141583216000820001417092520008560014194721600082000142073252000856001423112160008200014243725200085600142675216000820001428012520008560014303921600082000143172252000856001434102160008200014353625200085600143774216000820001439002520008560014413821600082000144264252000856001445022160008200014462825200085600144866216000820001449922520008560014523021600082000145363252000856001456012160008200014572725200085600145965216000820001460912520008560014632921600082000146455252000856001466932160008200014681925200085600147057216000820001471832520008560014742121600082000">>,
       <<(0 - 14932), "07863114992085600">>,
       <<(0 - 18570), "07887618570082000089894180000856000908691440008200009090018000085600091159144000820000979242520008560009810621600082000098288252000856000984772160008200009865225200085600098841216000820000990232520008560009920521600082000099387252000856000995692160008200009975125200085600099933216000820001001152520008560010029721600082000100479252000856001006682160008200010085025200085600101032216000820001012142520008560010139621600082000101578252000856001017602160008200010194225200085600102124216000820001023062520008560010249521600082000102670252000856001028592160008200010304125200085600103223216000820001034052520008560010358721600082000103769252000856001039512160008200010413325200085600104315216000820001044972520008560010468621600082000104861252000856001050502160008200010523225200085600105414216000820001055962520008560010577821600082000105960252000856001061422160008200010630325200085600106506216000820001066672520008560010687721600082000107031252000856001072412160008200010739525200085600107605216000820001077662520008560010796921600082000108130252000856001083332160008200010849425200085600108704216000820001088582520008560010906821600082000109222252000856001094322160008200010959325200085600109796216000820001099572520008560011016021600082000110321252000856001105242160008200011068525200085600110895216000820001110492520008560011125921600082000111413252000856001116232160008200011178425200085600111987216000820001121482520008560011235121600082000112512252000856001127222160008200011287625200085600113086216000820001132402520008560011345021600082000113583252000856001138212160008200011394725200085600114185216000820001143112520008560011454921600082000114682252000856001149202160008200011504625200085600115284216000820001154102520008560011564821600082000115774252000856001160122160008200011613825200085600116376216000820001165022520008560011674021600082000116873252000856001171112160008200011723725200085600117475216000820001176012520008560011783921600082000117965252000856001182032160008200011832925200085600118567216000820001187002520008560011893821600082000119064252000856001193022160008200011942825200085600119666216000820001197922520008560012003021600082000120156252000856001203942160008200012052025200085600120758216000820001208912520008560012112921600082000121255252000856001214932160008200012161925200085600121857216000820001219832520008560012222121600082000122347252000856001225852160008200012271825200085600122956216000820001230822520008560012332021600082000123446252000856001236842160008200012381025200085600124048216000820001241742520008560012441221600082000124538252000856001247762160008200012490925200085600125147216000820001252732520008560012551121600082000125637252000856001258752160008200012600125200085600126239216000820001263652520008560012660321600082000126729252000856001269672160008200012710025200085600127338216000820001274642520008560012770221600082000127828252000856001280662160008200012819225200085600128430216000820001285562520008560012879421600082000128927252000856001291652160008200012929125200085600129529216000820001296552520008560012989321600082000130019252000856001302572160008200013038325200085600130621216000820001307472520008560013098521600082000131118252000856001313562160008200013148225200085600131720216000820001318462520008560013208421600082000132210252000856001324482160008200013257425200085600132812216000820001329452520008560013318321600082000133309252000856001335472160008200013367325200085600133911216000820001340372520008560013427521600082000134401252000856001346392160008200013476525200085600135003216000820001351362520008560013537421600082000135500252000856001357382160008200013586425200085600136102216000820001362282520008560013646621600082000136592252000856001368302160008200013695625200085600137194216000820001373272520008560013756521600082000137691252000856001379292160008200013805525200085600138293216000820001384192520008560013865721600082000138783252000856001390212160008200013915425200085600139392216000820001395182520008560013975621600082000139882252000856001401202160008200014024625200085600140484216000820001406102520008560014084821600082000140974252000856001412122160008200014134525200085600141583216000820001417092520008560014194721600082000142073252000856001423112160008200014243725200085600142675216000820001428012520008560014303921600082000143172252000856001434102160008200014353625200085600143774216000820001439002520008560014413821600082000144264252000856001445022160008200014462825200085600144866216000820001449922520008560014523021600082000145363252000856001456012160008200014572725200085600145965216000820001460912520008560014632921600082000146455252000856001466932160008200014681925200085600147057216000820001471832520008560014742121600082000">>,
       <<(0 - 17762), "0685456120008200008109625200085600081306216000820000814602520008560008167021600082000081824252000856000820412160008200008221625200085600082370216000820000825872520008560008273421600082000082951252000856000831052160008200008331525200085600083469216000820000836792520008560008383321600082000084043252000856000841972160008200008440725200085600084561216000820000847782520008560008493221600082000085142252000856000852962160008200008550625200085600085660216000820000858702520008560008602421600082000086234252000856000863882160008200008660525200085600086752216000820000869692520008560008712321600082000087333252000856000874872160008200008769725200085600087851216000820000880612520008560008821521600082000088425252000856000885792160008200008879625200085600088943216000820000891602520008560008931421600082000089524252000856000896782160008200008981225200085600091141216000820000913512520008560009150521600082000091715252000856000918692160008200009207925200085600092233216000820000924432520008560009259721600082000092814252000856000929612160008200009317825200085600093332216000820000935422520008560009369621600082000093906252000856000940602160008200009427025200085600094424216000820000946342520008560009482321600082000095005252000856000951872160008200009536925200085600095551216000820000957332520008560009591521600082000096097252000856000962792160008200009646125200085600096650216000820000968322520008560009701421600082000097196252000856000973782160008200009756025200085600097742216000820000979242520008560009810621600082000098288252000856000984772160008200009865225200085600098841216000820000990232520008560009920521600082000099387252000856000995692160008200009975125200085600099933216000820001001152520008560010029721600082000100479252000856001006682160008200010085025200085600101032216000820001012142520008560010139621600082000101466252000856001017602160008200010187925200085600102124216000820001023062520008560010249521600082000102670252000856001028592160008200010304125200085600103223216000820001034052520008560010358721600082000103769252000856001039512160008200010413325200085600104315216000820001044972520008560010468621600082000104861252000856001050502160008200010523225200085600105414216000820001055962520008560010577821600082000105960252000856001061422160008200010630325200085600106506216000820001066672520008560010687721600082000107031252000856001072412160008200010739525200085600107605216000820001077662520008560010796921600082000108130252000856001083332160008200010849425200085600108704216000820001088582520008560010906821600082000109222252000856001094322160008200010959325200085600109796216000820001099572520008560011016021600082000110321252000856001105242160008200011068525200085600110895216000820001110492520008560011125921600082000111413252000856001116232160008200011178425200085600111987216000820001121482520008560011235121600082000112512252000856001127222160008200011287625200085600113086216000820001132402520008560011345021600082000113583252000856001138212160008200011394725200085600114185216000820001143112520008560011454921600082000114682252000856001149202160008200011504625200085600115284216000820001154102520008560011564821600082000115774252000856001160122160008200011613825200085600116376216000820001165022520008560011674021600082000116873252000856001171112160008200011723725200085600117475216000820001176012520008560011783921600082000117965252000856001182032160008200011832925200085600118567216000820001187002520008560011893821600082000119064252000856001193022160008200011942825200085600119666216000820001197922520008560012003021600082000120156252000856001203942160008200012052025200085600120758216000820001208912520008560012112921600082000121255252000856001214932160008200012161925200085600121857216000820001219832520008560012222121600082000122347252000856001225852160008200012271825200085600122956216000820001230822520008560012332021600082000123446252000856001236842160008200012381025200085600124048216000820001241742520008560012441221600082000124538252000856001247762160008200012490925200085600125147216000820001252732520008560012551121600082000125637252000856001258752160008200012600125200085600126239216000820001263652520008560012660321600082000126729252000856001269672160008200012710025200085600127338216000820001274642520008560012770221600082000127828252000856001280662160008200012819225200085600128430216000820001285562520008560012879421600082000128927252000856001291652160008200012929125200085600129529216000820001296552520008560012989321600082000130019252000856001302572160008200013038325200085600130621216000820001307472520008560013098521600082000131118252000856001313562160008200013148225200085600131720216000820001318462520008560013208421600082000132210252000856001324482160008200013257425200085600132812216000820001329452520008560013318321600082000133309252000856001335472160008200013367325200085600133911216000820001340372520008560013427521600082000134401252000856001346392160008200013476525200085600135003216000820001351362520008560013537421600082000135500252000856001357382160008200013586425200085600136102216000820001362282520008560013646621600082000136592252000856001368302160008200013695625200085600137194216000820001373272520008560013756521600082000137691252000856001379292160008200013805525200085600138293216000820001384192520008560013865721600082000138783252000856001390212160008200013915425200085600139392216000820001395182520008560013975621600082000139882252000856001401202160008200014024625200085600140484216000820001406102520008560014084821600082000140974252000856001412122160008200014134525200085600141583216000820001417092520008560014194721600082000142073252000856001423112160008200014243725200085600142675216000820001428012520008560014303921600082000143172252000856001434102160008200014353625200085600143774216000820001439002520008560014413821600082000144264252000856001445022160008200014462825200085600144866216000820001449922520008560014523021600082000145363252000856001456012160008200014572725200085600145965216000820001460912520008560014632921600082000146455252000856001466932160008200014681925200085600147057216000820001471832520008560014742121600082000">>,
       <<46702, "0626710187306030207466482898060400089812468000640000911414320006040009975146800064000099933432000604001001154680006400010029743200060400100479468000640001006684320006040010085046800064000101032432000604001012144680006400010139643200060400101466468000640001017604320006040010187946800064000102124432000604001023064680006400010249543200060400102670468000640001028594320006040010304146800064000103223432000604001034054680006400010358743200060400103769468000640001039514320006040010413346800064000104315432000604001044974680006400010468643200060400104861468000640001050504320006760010523239600071200105414360000676001055963960007120010577836000067600105960396000712001061423600006760010630339600071200106506360000676001066673960007120010687736000067600107031396000712001072413600006760010739539600071200107605360000676001077663960007120010796936000067600108130396000712001083333600006760010849439600071200108704360000676001088583960007120010906836000067600109222396000712001094323600006760010959339600071200109796360000676001099573960007120011016036000067600110321396000712001105243600006760011068539600071200110895360000676001110493960007120011125936000067600111413396000712001116233600006760011178439600071200111987360000676001121483960007120011235136000067600112512396000712001127223600006760011287639600071200113086360000676001132403960007120011345036000067600113583396000712001138213600006760011394739600071200114185360000676001143113960007120011454936000067600114682396000712001149203600006760011504639600071200115284360000676001154103960007120011564836000067600115774396000712001160123600006760011613839600071200116376360000676001165023960007120011674036000067600116873396000712001171113600006760011723739600071200117475360000676001176013960007120011783936000067600117965396000712001182033600006760011832939600071200118567360000676001187003960007120011893836000067600119064396000712001193023600006760011942839600071200119666360000676001197923960007120012003036000067600120156396000712001203943600006760012052039600071200120758360000676001208913960007120012112936000067600121255396000712001214933600006760012161939600071200121857360000676001219833960007120012222136000067600122347396000712001225853600006760012271839600071200122956360000676001230823960007120012332036000067600123446396000712001236843600006760012381039600071200124048360000676001241743960007120012441236000067600124538396000712001247763600006760012490939600071200125147360000676001252733960007120012551136000067600125637396000712001258753600006760012600139600071200126239360000676001263653960007120012660336000067600126729396000712001269673600006760012710039600071200127338360000676001274643960007120012770236000067600127828396000712001280663600006760012819239600071200128430360000676001285563960007120012879436000067600128927396000712001291653600006760012929139600071200129529360000676001296553960007120012989336000067600130019396000712001302573600006760013038339600071200130621360000676001307473960007120013098536000067600131118396000712001313563600006760013148239600071200131720360000676001318463960007120013208436000067600132210396000712001324483600006760013257439600071200132812360000676001329453960007120013318336000067600133309396000712001335473600006760013367339600071200133911360000676001340373960007120013427536000067600134401396000712001346393600006760013476539600071200135003360000676001351363960007120013537436000067600135500396000712001357383600006760013586439600071200136102360000676001362283960007120013646636000067600136592396000712001368303600006760013695639600071200137194360000676001373273960007120013756536000067600137691396000712001379293600006760013805539600071200138293360000676001384193960007120013865736000067600138783396000712001390213600006760013915439600071200139392360000676001395183960007120013975636000067600139882396000712001401203600006760014024639600071200140484360000676001406103960007120014084836000067600140974396000712001412123600006760014134539600071200141583360000676001417093960007120014194736000067600142073396000712001423113600006760014243739600071200142675360000676001428013960007120014303936000067600143172396000712001434103600006760014353639600071200143774360000676001439003960007120014413836000067600144264396000712001445023600006760014462839600071200144866360000676001449923960007120014523036000067600145363396000712001456013600006760014572739600071200145965360000676001460913960007120014632936000067600146455396000712001466933600006760014681939600071200147057360000676001471833960007120014742136000067600">>,
       <<(0 - 7780), "079546077800928000860304680009640008621103600092800086396072000964000865760360009280009266407200096400092800072000928000930290720009640009315003600092800093394072000964000935160360009280009376007200096400093850036000928000977850720009640009786803600092800098204072000964000982630360009280009850807200096400098598036000928000988430720009640009896303600092800099208072000964000993290360009280010578407200096400105917036000928001061410720009640010625303600092800106506072000964001066110360009280010686307200096400106968036000928001072270720009640010734603600092800110867072000964001110140360009280011123807200096400111245036000928001116090720009640011173503600092800">>,
       <<(0 - 24427), "0685456840007480008109632400078400081306288000748000814603240007840008167028800074800089812324000784000911412880007480009902332400078400099205288000748000993873240007840009956928800074800099751324000784000999332880007480010011532400078400100297288000748001004793240007840010066828800074800100850324000784001010322880007480010121432400078400101396288000748001014663240007840010176028800074800101879324000784001021242880007480010230632400078400102495288000748001026703240007840010285928800074800103041324000784001032232880007480010340532400078400103587288000748001037693240007840010395128800074800104133324000784001043152880007480010449732400078400104686288000748001048613240007840010505028800074800105232324000784001054142880007480010559632400078400105778288000748001059603240007840010614228800074800106303324000784001065062880007480010666732400078400106877288000748001070313240007840010724128800074800107395324000784001076052880007480010776632400078400107969288000748001081303240007840010833328800074800108494324000784001087042880007480010885832400078400109068288000748001092223240007840010943228800074800109593324000784001097962880007480010995732400078400110160288000748001103213240007840011052428800074800110685324000784001108952880007480011104932400078400111259288000748001114133240007840011162328800074800111784324000784001119872880007480011214832400078400112351288000748001125123240007840011272228800074800112876324000784001130862880007480011324032400078400113450288000748001135833240007840011382128800074800113947324000784001141852880007480011431132400078400114549288000748001146823240007840011504628800082000115284252000784001154102880008200011564825200078400115774288000820001160122520007840011613828800082000116376252000784001165022880008200011674025200078400116873288000820001171112520007840011723728800082000117475252000784001176012880008200011783925200078400117965288000820001182032520007840011832928800082000118567252000784001187002880008200011893825200078400119064288000820001193022520007840011942828800082000119666252000784001197922880008200012003025200078400120156288000820001203942520007840012052028800082000120758252000784001208912880008200012112925200078400121255288000820001214932520007840012161928800082000121857252000784001219832880008200012222125200078400122347288000820001225852520007840012271828800082000122956252000784001230822880008200012332025200078400123446288000820001236842520007840012381028800082000124048252000784001241742880008200012441225200078400124538288000820001247762520007840012490928800082000125147252000784001252732880008200012551125200078400125637288000820001258752520007840012600128800082000126239252000784001263652880008200012660325200078400126729288000820001269672520007840012710028800082000127338252000784001274642880008200012770225200078400127828288000820001280662520007840012819228800082000128430252000784001285562880008200012879425200078400128927288000820001291652520007840012929128800082000129529252000784001296552880008200012989325200078400130019288000820001302572520007840013038328800082000130621252000784001307472880008200013098525200078400131118288000820001313562520007840013148228800082000131720252000784001318462880008200013208425200078400132210288000820001324482520007840013257428800082000132812252000784001329452880008200013318325200078400133309288000820001335472520007840013367328800082000133911252000784001340372880008200013427525200078400134401288000820001346392520007840013476528800082000135003252000784001351362880008200013537425200078400135500288000820001357382520007840013586428800082000136102252000784001362282880008200013646625200078400136592288000820001368302520007840013695628800082000137194252000784001373272880008200013756525200078400137691288000820001379292520007840013805528800082000138293252000784001384192880008200013865725200078400138783288000820001390212520007840013915428800082000139392252000784001395182880008200013975625200078400139882288000820001401202520007840014024628800082000140484252000784001406102880008200014084825200078400140974288000820001412122520007840014134528800082000141583252000784001417092880008200014194725200078400142073288000820001423112520007840014243728800082000142675252000784001428012880008200014303925200078400143172288000820001434102520007840014353628800082000143774252000784001439002880008200014413825200078400144264288000820001445022520007840014462828800082000144866252000784001449922880008200014523025200078400145363288000820001456012520007840014572728800082000145965252000784001460912880008200014632925200078400146455288000820001466932520007840014681928800082000147057252000784001471832880008200014742125200078400">>,
       <<(0 - 24312), "0685456840007480008109632400078400081306288000748000814603240007840008167028800074800089812324000784000911412880007480009902332400078400099205288000748000993873240007840009956928800074800099751324000784000999332880007480010011532400078400100297288000748001004793240007840010066828800074800100850324000784001010322880007480010121432400078400101396288000748001014663240007840010176028800074800101879324000784001021242880007480010230632400078400102495288000748001026703240007840010285928800074800103041324000784001032232880007480010340532400078400103587288000748001037693240007840010395128800074800104133324000784001043152880007480010449732400078400104686288000748001048613240007840010505028800074800105232324000784001054142880007480010559632400078400105778288000748001059603240007840010614228800074800106303324000784001065062880007480010666732400078400106877288000748001070313240007840010724128800074800107395324000784001076052880007480010776632400078400107969288000748001081303240007840010849428800082000108704252000784001088582880008200010906825200078400109222288000820001094322520007840010959328800082000109796252000784001099572880008200011016025200078400110321288000820001105242520007840011068528800082000110895252000784001110492880008200011125925200078400111413288000820001116232520007840011178428800082000111987252000784001121482880008200011235125200078400112512288000820001127222520007840011287628800082000113086252000784001132402880008200011345025200078400113583288000820001138212520007840011394728800082000114185252000784001143112880008200011454925200078400114682288000820001149202520007840011504628800082000115284252000784001154102880008200011564825200078400115774288000820001160122520007840011613828800082000116376252000784001165022880008200011674025200078400116873288000820001171112520007840011723728800082000117475252000784001176012880008200011783925200078400117965288000820001182032520007840011832928800082000118567252000784001187002880008200011893825200078400119064288000820001193022520007840011942828800082000119666252000784001197922880008200012003025200078400120156288000820001203942520007840012052028800082000120758252000784001208912880008200012112925200078400121255288000820001214932520007840012161928800082000121857252000784001219832880008200012222125200078400122347288000820001225852520007840012271828800082000122956252000784001230822880008200012332025200078400123446288000820001236842520007840012381028800082000124048252000784001241742880008200012441225200078400124538288000820001247762520007840012490928800082000125147252000784001252732880008200012551125200078400125637288000820001258752520007840012600128800082000126239252000784001263652880008200012660325200078400126729288000820001269672520007840012710028800082000127338252000784001274642880008200012770225200078400127828288000820001280662520007840012819228800082000128430252000784001285562880008200012879425200078400128927288000820001291652520007840012929128800082000129529252000784001296552880008200012989325200078400130019288000820001302572520007840013038328800082000130621252000784001307472880008200013098525200078400131118288000820001313562520007840013148228800082000131720252000784001318462880008200013208425200078400132210288000820001324482520007840013257428800082000132812252000784001329452880008200013318325200078400133309288000820001335472520007840013367328800082000133911252000784001340372880008200013427525200078400134401288000820001346392520007840013476528800082000135003252000784001351362880008200013537425200078400135500288000820001357382520007840013586428800082000136102252000784001362282880008200013646625200078400136592288000820001368302520007840013695628800082000137194252000784001373272880008200013756525200078400137691288000820001379292520007840013805528800082000138293252000784001384192880008200013865725200078400138783288000820001390212520007840013915428800082000139392252000784001395182880008200013975625200078400139882288000820001401202520007840014024628800082000140484252000784001406102880008200014084825200078400140974288000820001412122520007840014134528800082000141583252000784001417092880008200014194725200078400142073288000820001423112520007840014243728800082000142675252000784001428012880008200014303925200078400143172288000820001434102520007840014353628800082000143774252000784001439002880008200014413825200078400144264288000820001445022520007840014462828800082000144866252000784001449922880008200014523025200078400145363288000820001456012520007840014572728800082000145965252000784001460912880008200014632925200078400146455288000820001466932520007840014681928800082000147057252000784001471832880008200014742125200078400">>,
       <<(0 - 24339), "0685456840007480008109632400078400081306288000748000814603240007840008167028800074800089812324000784000911412880007480009902332400078400099205288000748000993873240007840009956928800074800099751324000784000999332880007480010011532400078400100297288000748001004793240007840010066828800074800100850324000784001010322880007480010121432400078400101396288000748001014663240007840010176028800074800101879324000784001021242880007480010230632400078400102495288000748001026703240007840010285928800074800103041324000784001032232880007480010340532400078400103587288000748001037693240007840010395128800074800104133324000784001043152880007480010449732400078400104686288000748001048613240007840010505028800074800105232324000784001054142880007480010559632400078400105778288000748001059603240007840010614228800074800106303324000784001065062880007480010666732400078400106877288000748001070313240007840010724128800074800107395324000784001076052880007480010776632400078400107969288000748001081303240007840010833328800074800108494324000784001087042880007480010885832400078400109068288000748001092223240007840010943228800074800109593324000784001097962880007480010995732400078400110160288000748001103213240007840011052428800074800110685324000784001108952880007480011104932400078400111259288000748001114133240007840011162328800074800111784324000784001119872880007480011214832400078400112512288000820001127222520007840011287628800082000113086252000784001132402880008200011345025200078400113583288000820001138212520007840011394728800082000114185252000784001143112880008200011454925200078400114682288000820001149202520007840011504628800082000115284252000784001154102880008200011564825200078400115774288000820001160122520007840011613828800082000116376252000784001165022880008200011674025200078400116873288000820001171112520007840011723728800082000117475252000784001176012880008200011783925200078400117965288000820001182032520007840011832928800082000118567252000784001187002880008200011893825200078400119064288000820001193022520007840011942828800082000119666252000784001197922880008200012003025200078400120156288000820001203942520007840012052028800082000120758252000784001208912880008200012112925200078400121255288000820001214932520007840012161928800082000121857252000784001219832880008200012222125200078400122347288000820001225852520007840012271828800082000122956252000784001230822880008200012332025200078400123446288000820001236842520007840012381028800082000124048252000784001241742880008200012441225200078400124538288000820001247762520007840012490928800082000125147252000784001252732880008200012551125200078400125637288000820001258752520007840012600128800082000126239252000784001263652880008200012660325200078400126729288000820001269672520007840012710028800082000127338252000784001274642880008200012770225200078400127828288000820001280662520007840012819228800082000128430252000784001285562880008200012879425200078400128927288000820001291652520007840012929128800082000129529252000784001296552880008200012989325200078400130019288000820001302572520007840013038328800082000130621252000784001307472880008200013098525200078400131118288000820001313562520007840013148228800082000131720252000784001318462880008200013208425200078400132210288000820001324482520007840013257428800082000132812252000784001329452880008200013318325200078400133309288000820001335472520007840013367328800082000133911252000784001340372880008200013427525200078400134401288000820001346392520007840013476528800082000135003252000784001351362880008200013537425200078400135500288000820001357382520007840013586428800082000136102252000784001362282880008200013646625200078400136592288000820001368302520007840013695628800082000137194252000784001373272880008200013756525200078400137691288000820001379292520007840013805528800082000138293252000784001384192880008200013865725200078400138783288000820001390212520007840013915428800082000139392252000784001395182880008200013975625200078400139882288000820001401202520007840014024628800082000140484252000784001406102880008200014084825200078400140974288000820001412122520007840014134528800082000141583252000784001417092880008200014194725200078400142073288000820001423112520007840014243728800082000142675252000784001428012880008200014303925200078400143172288000820001434102520007840014353628800082000143774252000784001439002880008200014413825200078400144264288000820001445022520007840014462828800082000144866252000784001449922880008200014523025200078400145363288000820001456012520007840014572728800082000145965252000784001460912880008200014632925200078400146455288000820001466932520007840014681928800082000147057252000784001471832880008200014742125200078400">>,
       <<(0 - 25060), "0824682520007480008445521600078400085708216000748000858762160007840008602821600074800086211252000784001095932880008200010979625200078400109957288000820001101602520007840011052428800074800110685324000784001108952880007480011104932400078400111259288000748001114483240007840011159528800074800111784324000784001119872880007480011214832400078400112351288000748001125123240007840011272228800074800112876324000784001130862880007480011324032400078400113450288000748001136043240007840011381428800074800113975324000784001141782880007480011433932400078400114542288000748001146823240007840011492028800074800115046324000784001152842880007480011541032400078400115648288000748001157743240007840011601228800074800116138324000784001163762880007480011650232400078400116740288000748001168733240007840011711128800074800117237324000784001174752880007480011760132400078400117839288000748001179653240007840011820328800074800118329324000784001185672880007480011870032400078400118938288000748001190643240007840011942828800082000119666252000784001197922880008200012003025200078400120156288000820001203942520007840012052028800082000120758252000784001208912880008200012112925200078400121255288000820001214932520007840012161928800082000121857252000784001219832880008200012222125200078400122347288000820001225852520007840012271828800082000122956252000784001230822880008200012332025200078400123446288000820001236842520007840012381028800082000124048252000784001241742880008200012441225200078400124538288000820001247762520007840012490928800082000125147252000784001252732880008200012551125200078400125637288000820001258752520007840012600128800082000126239252000784001263652880008200012660325200078400126729288000820001269672520007840012710028800082000127338252000784001274642880008200012770225200078400127828288000820001280662520007840012819228800082000128430252000784001285562880008200012879425200078400128927288000820001291652520007840012929128800082000129529252000784001296552880008200012989325200078400130019288000820001302572520007840013038328800082000130621252000784001307472880008200013098525200078400131118288000820001313562520007840013148228800082000131720252000784001318462880008200013208425200078400132210288000820001324482520007840013257428800082000132812252000784001329452880008200013318325200078400133309288000820001335472520007840013367328800082000133911252000784001340372880008200013427525200078400134401288000820001346392520007840013476528800082000135003252000784001351362880008200013537425200078400135500288000820001357382520007840013586428800082000136102252000784001362282880008200013646625200078400136592288000820001368302520007840013695628800082000137194252000784001373272880008200013756525200078400137691288000820001379292520007840013805528800082000138293252000784001384192880008200013865725200078400138783288000820001390212520007840013915428800082000139392252000784001395182880008200013975625200078400139882288000820001401202520007840014024628800082000140484252000784001406102880008200014084825200078400140974288000820001412122520007840014134528800082000141583252000784001417092880008200014194725200078400142073288000820001423112520007840014243728800082000142675252000784001428012880008200014303925200078400143172288000820001434102520007840014353628800082000143774252000784001439002880008200014413825200078400144264288000820001445022520007840014462828800082000144866252000784001449922880008200014523025200078400145363288000820001456012520007840014572728800082000145965252000784001460912880008200014632925200078400146455288000820001466932520007840014681928800082000147057252000784001471832880008200014742125200078400">>,
       <<(0 - 13240), "07845013240086748087216132520867640911421323608740010538712600089200">>,
       <<(0 - 26898), "0685456840007480008109632400078400081306288000748000814603240007840008167028800074800089812324000784000905032166007480009059425260078400090777216600748000990233240007840009920528800074800">>,
       <<(0 - 17360), "070781173600826600806656054008200010487518000085600105050144000820001052321800008560010541414400082000105596180000856001057781440008200010596018000085600106142144000820001063241800008560010650614400082000106667216000856001068772160008200010703121600085600107241216000820001073952160008560010760521600082000107766216000856001079692160008200010813021600085600108333216000820001084942160008560010870421600082000108858216000856001090682160008200010922221600085600109432216000820001095932160008560010979621600082000109957216000856001101602160008200011287618000085600113086144000820001132401800008560011345014400082000115410252000856001156482160008200011577425200085600116012216000820001161382520008560011637621600082000116502252000856001167402160008200011723725200085600117475216000820001176012520008560011783921600082000117965252000856001182032160008200011832925200085600118567216000820001187002520008560011893821600082000119064252000856001193022160008200011942825200085600119666216000820001197922520008560012003021600082000120156252000856001203942160008200012052025200085600120758216000820001208912520008560012112921600082000121255252000856001214932160008200012161925200085600121857216000820001219832520008560012222121600082000122347252000856001225852160008200012271825200085600122956216000820001230822520008560012332021600082000123446252000856001236842160008200012381025200085600124048216000820001241742520008560012441221600082000124538252000856001247762160008200012490925200085600125147216000820001252732520008560012551121600082000125637252000856001258752160008200012600125200085600126239216000820001263652520008560012660321600082000126729252000856001269672160008200012710025200085600127338216000820001274642520008560012770221600082000127828252000856001280662160008200012819225200085600128430216000820001285562520008560012879421600082000128927252000856001291652160008200012929125200085600129529216000820001296552520008560012989321600082000130019252000856001302572160008200013038325200085600130621216000820001307472520008560013098521600082000131118252000856001313562160008200013148225200085600131720216000820001318462520008560013208421600082000132210252000856001324482160008200013257425200085600132812216000820001329452520008560013318321600082000133309252000856001335472160008200013367325200085600133911216000820001340372520008560013427521600082000134401252000856001346392160008200013476525200085600135003216000820001351362520008560013537421600082000135500252000856001357382160008200013586425200085600136102216000820001362282520008560013646621600082000136592252000856001368302160008200013695625200085600137194216000820001373272520008560013756521600082000137691252000856001379292160008200013805525200085600138293216000820001384192520008560013865721600082000138783252000856001390212160008200013915425200085600139392216000820001395182520008560013975621600082000139882252000856001401202160008200014024625200085600140484216000820001406102520008560014084821600082000140974252000856001412122160008200014134525200085600141583216000820001417092520008560014194721600082000142073252000856001423112160008200014243725200085600142675216000820001428012520008560014303921600082000143172252000856001434102160008200014353625200085600143774216000820001439002520008560014413821600082000144264252000856001445022160008200014462825200085600144866216000820001449922520008560014523021600082000145363252000856001456012160008200014572725200085600145965216000820001460912520008560014632921600082000146455252000856001466932160008200014681925200085600147057216000820001471832520008560014742121600082000">>,
       <<(0 - 14764), "07887614764085600">>,
       <<(0 - 16272), "07954616272082000086030576000856000862111440008200008639618000085600086576144000820000926641800008560009280018000082000093029180000856000931501440008200009339418000085600093516144000820000937601800008560009385014400082000097785180000856000978681440008200009820418000085600098263144000820000985081800008560009859814400082000098843180000856000989631440008200009920818000085600099329144000820001057841800008560010591714400082000106141180000856001062531440008200010650618000085600106611144000820001140541800008560011601914400082000">>,
       <<(0 - 15336), "0795461533608560008603054000089200086211108000856000863961440008920008657610800085600092664144000892000928001440008560009302914400089200093150108000856000933941440008920009351610800085600093760144000892000938501080008560009778514400089200097868108000856000982041440008920009826310800085600098508144000892000985981080008560009884314400089200098963108000856000992081440008920009932910800085600105784144000892001059171080008560010614114400089200106253108000856001065061440008920010661110800085600">>,
       <<(0 - 17020), "07078117020083035078094169650820000804581800008303508125916965085600081553144000830350845371696508560008475014400082000084903180000856000851151440008200008526818000085600085480144000820000856331800008560008584514400082000085998180000856000862111440008200008636418000085600089924144000820000899851800008560009168914400082000091740144000856000995761440008920009972310800085600099961144000892001000871080008560010028314400089200100437108000856001006471440008920010080110800085600101018144000892001011651080008560010136814400089200101529108000856001017461440008920010189310800085600102110144000892001022641080008560010247414400089200102628108000856001028381440008920010299210800085600103209144000892001033561080008560010357314400089200103720108000856001039371440008920010409110800085600104301144000892001044551080008560010466514400089200104819108000856001050291440008920010518310800085600105400144000892001055471080008560010576414400089200105911108000856001061281440008920010631010800085600106492144000892001066461080008560010685614400089200107010108000856001072271440008920010737410800085600107563144000892001077381080008560010795514400089200108109108000856001083191440008920010847310800085600108683144000892001088371080008560010904714400089200109201108000856001094181440008920010956510800085600109782144000892001099501080008560011014614400089200110300108000856001104961440008920011068510800085600110874144000892001110281080008560011124514400089200111392108000856001116091440008920011175610800085600111973144000892001121201080008560011233714400089200112491108000856001127011440008920011285510800085600113065144000892001132191080008560011343614400089200113583108000856001138001440008920011396810800085600114164144000892001143181080008560011452814400089200114703108000856001148921440008920011510210800085600115207144000892001154591080008560011558514400089200115823108000856001159561440008920011618710800085600116320144000892001169361080008560011702714400089200">>,
       <<(0 - 23316), "069881233160784000803892160008200008053618000078400081110288000820000813062520007840008808228800082000088215252000784000898122880008200009114125200078400091365288000820000915192520007840009171528800082000091869252000784000920792880008200009223325200078400092443288000820000925972520007840009281528800082000092967252000784000931782880008200009333225200078400093542288000820000936962520007840009390628800082000094060252000784000942702880008200009442425200078400094634288000820000947882520007840009500528800082000095159252000784000953692880008200009552325200078400095733288000820000958872520007840009609728800082000096279252000784000964612880008200009661525200078400097560288000820000977072520007840009865228800082000098841288000784000990232880008200009920528800078400099387288000820000995692880007840009975128800082000099933288000784001001152880008200010029728800078400100479288000820001006682880007840010085028800082000101032288000784001012142880008200010139628800078400101578288000820001017602880007840010194228800082000102124288000784001023062880008200010249528800078400102670288000820001028592880007840010304128800082000103223288000784001034052880008200010358728800078400103769288000820001039512880007840010413328800082000104315288000784001044972880008200010468628800078400104861288000820001050502880007840010523228800082000105414288000784001055962880008200010577828800078400105960288000820001061422880007840010630328800082000106506288000784001066672880008200010687728800078400107031288000820001072412880007840010739528800082000107605288000784001077662880008200010796928800078400108130288000820001083332880007840010849428800082000108704288000784001088582880008200010906828800078400109222288000820001094322880007840010959328800082000109796288000784001099572880008200011016028800078400110321288000820001105242880007840011068528800082000110895288000784001110492880008200011125928800078400111413288000820001116232880007840011178428800082000111987288000784001121482880008200011235128800078400112512288000820001127222880007840011287628800082000113086288000784001132402880008200011345025200078400113583288000820001138212520007840011394728800082000114185252000784001143112880008200011454925200078400114682288000820001149202520007840011504628800082000115284252000784001154102880008200011564825200078400115774288000820001160122520007840011613828800082000116376252000784001165022880008200011674025200078400116873288000820001171112520007840011723728800082000117475252000784001176012880008200011783925200078400117965288000820001182032520007840011832928800082000118567252000784001187002880008200011893825200078400119064288000820001193022520007840011942828800082000119666252000784001197922880008200012003025200078400120156288000820001203942520007840012052028800082000120758252000784001208912880008200012112925200078400121255288000820001214932520007840012161928800082000121857252000784001219832880008200012222125200078400122347288000820001225852520007840012271828800082000122956252000784001230822880008200012332025200078400123446288000820001236842520007840012381028800082000124048252000784001241742880008200012441225200078400124538288000820001247762520007840012490928800082000125147252000784001252732880008200012551125200078400125637288000820001258752520007840012600128800082000126239252000784001263652880008200012660325200078400126729288000820001269672520007840012710028800082000127338252000784001274642880008200012770225200078400127828288000820001280662520007840012819228800082000128430252000784001285562880008200012879425200078400128927288000820001291652520007840012929128800082000129529252000784001296552880008200012989325200078400130019288000820001302572520007840013038328800082000130621252000784001307472880008200013098525200078400131118288000820001313562520007840013148228800082000131720252000784001318462880008200013208425200078400132210288000820001324482520007840013257428800082000132812252000784001329452880008200013318325200078400133309288000820001335472520007840013367328800082000133911252000784001340372880008200013427525200078400134401288000820001346392520007840013476528800082000135003252000784001351362880008200013537425200078400135500288000820001357382520007840013586428800082000136102252000784001362282880008200013646625200078400136592288000820001368302520007840013695628800082000137194252000784001373272880008200013756525200078400137691288000820001379292520007840013805528800082000138293252000784001384192880008200013865725200078400138783288000820001390212520007840013915428800082000139392252000784001395182880008200013975625200078400139882288000820001401202520007840014024628800082000140484252000784001406102880008200014084825200078400140974288000820001412122520007840014134528800082000141583252000784001417092880008200014194725200078400142073288000820001423112520007840014243728800082000142675252000784001428012880008200014303925200078400143172288000820001434102520007840014353628800082000143774252000784001439002880008200014413825200078400144264288000820001445022520007840014462828800082000144866252000784001449922880008200014523025200078400145363288000820001456012520007840014572728800082000145965252000784001460912880008200014632925200078400146455288000820001466932520007840014681928800082000147057252000784001471832880008200014742125200078400">>,
       <<0, "095252000000784001008502880008200010103225200078400101214288000820001013962520007840010157828800082000101760252000784001019422880008200010212425200078400102306288000820001024952520007840010267028800082000102859252000784001030412880008200010322325200078400103405288000820001035872520007840010376928800082000103951252000784001041332880008200010431525200078400104497288000820001046862520007840010486128800082000105050252000784001052322880008200010541425200078400105596288000820001057782520007840010596028800082000106142252000784001063032880008200010650625200078400106667288000820001068772520007840010703128800082000107241252000784001073952880008200010760525200078400107766288000820001079692520007840010813028800082000108333252000784001084942880008200010870425200078400108858288000820001090682520007840010922228800082000109432252000784001095932880008200010979625200078400109957288000820001101602520007840011032128800082000110524252000784001106852880008200011089525200078400111049288000820001116232520007840011178428800082000111987252000784001121482880008200011235125200078400112512288000820001127222520007840011287628800082000113086252000784001132402880008200011345025200078400113583288000820001138212520007840011394728800082000114185252000784001143112880008200011454925200078400114682288000820001149202520007840011504628800082000115284252000784001154102880008200011564825200078400115774288000820001160122520007840011613828800082000116376252000784001165022880008200011674025200078400116873288000820001171112520007840011723728800082000117475252000784001176012880008200011783925200078400117965288000820001182032520007840011832928800082000118567252000784001187002880008200011893825200078400119064288000820001193022520007840011942828800082000119666252000784001197922880008200012003025200078400120156288000820001203942520007840012052028800082000120758252000784001208912880008200012112925200078400121255288000820001214932520007840012161928800082000121857252000784001219832880008200012222125200078400122347288000820001225852520007840012271828800082000122956252000784001230822880008200012332025200078400123446288000820001236842520007840012381028800082000124048252000784001241742880008200012441225200078400124538288000820001247762520007840012490928800082000125147252000784001252732880008200012551125200078400125637288000820001258752520007840012600128800082000126239252000784001263652880008200012660325200078400126729288000820001269672520007840012710028800082000127338252000784001274642880008200012770225200078400127828288000820001280662520007840012819228800082000128430252000784001285562880008200012879425200078400128927288000820001291652520007840012929128800082000129529252000784001296552880008200012989325200078400130019288000820001302572520007840013038328800082000130621252000784001307472880008200013098525200078400131118288000820001313562520007840013148228800082000131720252000784001318462880008200013208425200078400132210288000820001324482520007840013257428800082000132812252000784001329452880008200013318325200078400133309288000820001335472520007840013367328800082000133911252000784001340372880008200013427525200078400134401288000820001346392520007840013476528800082000135003252000784001351362880008200013537425200078400135500288000820001357382520007840013586428800082000136102252000784001362282880008200013646625200078400136592288000820001368302520007840013695628800082000137194252000784001373272880008200013756525200078400137691288000820001379292520007840013805528800082000138293252000784001384192880008200013865725200078400138783288000820001390212520007840013915428800082000139392252000784001395182880008200013975625200078400139882288000820001401202520007840014024628800082000140484252000784001406102880008200014084825200078400140974288000820001412122520007840014134528800082000141583252000784001417092880008200014194725200078400142073288000820001423112520007840014243728800082000142675252000784001428012880008200014303925200078400143172288000820001434102520007840014353628800082000143774252000784001439002880008200014413825200078400144264288000820001445022520007840014462828800082000144866252000784001449922880008200014523025200078400145363288000820001456012520007840014572728800082000145965252000784001460912880008200014632925200078400146455288000820001466932520007840014681928800082000147057252000784001471832880008200014742125200078400">>,
       <<(0 - 8376), "079546083760892000860305040009280008621107200089200086396108000928000865760720008920009266410800092800092800108000892000930291080009280009315007200089200093394108000928000935160720008920009376010800092800093850072000892000977851080009280009786807200089200098204108000928000982630720008920009850810800092800098598072000892000988431080009280009896307200089200099208108000928000993290720008920010578410800092800105917072000892001061411080009280010625307200089200106506108000928001066110720008920010686310800092800106968072000892001072271080009280010734607200089200110867108000928001110140720008920011123810800092800111245072000892001116091080009280011173507200089200">>,
       <<(0 - 25116), "07650225116074800081110324000784000813062880007480008551325200078400085667216000748000858772520007840008603121600074800086241252000784000863952160007480008661225200078400086759216000748000869762520007840008713021600074800088047252000784000882292160007480008841125200078400088586216000748000887752520007840008895721600074800089146252000784000893282160007480008951025200078400089692216000748000898123240007840009114128800074800091337324000784000915192880007480009171532400078400091869288000748000920793240007840009223328800074800092443324000784000925972880007480009281432400078400092961288000748000931783240007840009333228800074800093542324000784000936962880007480009390632400078400094060288000748000942703240007840009442428800074800094634324000784000947882880007480009500532400078400095159288000748000953693240007840009552328800074800096097324000784000962792880007480009646132400078400">>,
       <<0, "09184100000078400100850288000820001010322520007840010121428800082000101396252000784001015782880008200010176025200078400101942288000820001021242520007840010230628800082000102495252000784001026702880008200010285925200078400103041288000820001032232520007840010340528800082000103587252000784001037692880008200010395125200078400104133288000820001043152520007840010449728800082000104686252000784001048612880008200010505025200078400105232288000820001054142520007840010559628800082000105778252000784001059602880008200010614225200078400106303288000820001065062520007840010666728800082000106877252000784001070312880008200010724125200078400107395288000820001076052520007840010776628800082000107969252000784001081302880008200010833325200078400108494288000820001087042520007840010885828800082000109068252000784001092222880008200010943225200078400109593288000820001097962520007840010995728800082000110160252000784001103212880008200011052425200078400110685288000820001108952520007840011104928800082000111623252000784001117842880008200011198725200078400112148288000820001123512520007840011251228800082000112722252000784001128762880008200011308625200078400113240288000820001138212520007840011394728800082000114185252000784001143112880008200011454925200078400114682288000820001149202520007840011504628800082000115284252000784001154102880008200011564825200078400115774288000820001160122520007840011613828800082000116376252000784001165022880008200011674025200078400116873288000820001171112520007840011723728800082000117475252000784001176012880008200011783925200078400117965288000820001182032520007840011832928800082000118567252000784001187002880008200011893825200078400119064288000820001193022520007840011942828800082000119666252000784001197922880008200012003025200078400120156288000820001203942520007840012052028800082000120758252000784001208912880008200012112925200078400121255288000820001214932520007840012161928800082000121857252000784001219832880008200012222125200078400122347288000820001225852520007840012271828800082000122956252000784001230822880008200012332025200078400123446288000820001236842520007840012381028800082000124048252000784001241742880008200012441225200078400124538288000820001247762520007840012490928800082000125147252000784001252732880008200012551125200078400125637288000820001258752520007840012600128800082000126239252000784001263652880008200012660325200078400126729288000820001269672520007840012710028800082000127338252000784001274642880008200012770225200078400127828288000820001280662520007840012819228800082000128430252000784001285562880008200012879425200078400128927288000820001291652520007840012929128800082000129529252000784001296552880008200012989325200078400130019288000820001302572520007840013038328800082000130621252000784001307472880008200013098525200078400131118288000820001313562520007840013148228800082000131720252000784001318462880008200013208425200078400132210288000820001324482520007840013257428800082000132812252000784001329452880008200013318325200078400133309288000820001335472520007840013367328800082000133911252000784001340372880008200013427525200078400134401288000820001346392520007840013476528800082000135003252000784001351362880008200013537425200078400135500288000820001357382520007840013586428800082000136102252000784001362282880008200013646625200078400136592288000820001368302520007840013695628800082000137194252000784001373272880008200013756525200078400137691288000820001379292520007840013805528800082000138293252000784001384192880008200013865725200078400138783288000820001390212520007840013915428800082000139392252000784001395182880008200013975625200078400139882288000820001401202520007840014024628800082000140484252000784001406102880008200014084825200078400140974288000820001412122520007840014134528800082000141583252000784001417092880008200014194725200078400142073288000820001423112520007840014243728800082000142675252000784001428012880008200014303925200078400143172288000820001434102520007840014353628800082000143774252000784001439002880008200014413825200078400144264288000820001445022520007840014462828800082000144866252000784001449922880008200014523025200078400145363288000820001456012520007840014572728800082000145965252000784001460912880008200014632925200078400146455288000820001466932520007840014681928800082000147057252000784001471832880008200014742125200078400">>,
       <<(0 - 13128), "079546131280856000860305400008920008621110800085600086396144000892000865761080008560009266414400089200092800144000856000930291440008920009315010800085600093394144000892000935161080008560009376014400089200093850108000856000977851440008920009786810800085600098204144000892000982631080008560009850814400089200098598108000856000988431440008920009896310800085600099208144000892000993291080008560010578414400089200105917108000856001061411440008920010625310800085600106506144000892001066111080008560011405414400089200">>,
       <<(0 - 16965), "078094169650820000804581800008303508125916965085600081553144000830350845371696508560008475014400082000084903180000856000851151440008200008526818000085600085480144000820000856331800008560008584514400082000085998180000856000862111440008200008636418000085600089924144000820000899851800008560009142914400089200091474108000856000916891440008200009174014400085600099576144000892000997231080008560009996114400089200100087108000856001002831440008920010043710800085600100647144000892001008011080008560010101814400089200101165108000856001013681440008920010152910800085600101746144000892001018931080008560010211014400089200102264108000856001024741440008920010262810800085600102838144000892001029921080008560010320914400089200103356108000856001035731440008920010372010800085600103937144000892001040911080008560010430114400089200104455108000856001046651440008920010481910800085600105029144000892001051831080008560010540014400089200105547108000856001057641440008920010591110800085600106128144000892001063101080008560010649214400089200106646108000856001068561440008920010701010800085600107227144000892001073741080008560010756314400089200107738108000856001079551440008920010810910800085600108319144000892001084731080008560010868314400089200108837108000856001090471440008920010920110800085600109418144000892001095651080008560010978214400089200109950108000856001101461440008920011030010800085600110496144000892001106851080008560011087414400089200111028108000856001112451440008920011139210800085600111609144000892001117561080008560011197314400089200112120108000856001123371440008920011249110800085600112701144000892001128551080008560011306514400089200113219108000856001134361440008920011358310800085600113800144000892001139681080008560011416414400089200114318108000856001145281440008920011470310800085600114892144000892001151021080008560011520714400089200115459108000856001155851440008920011582310800085600115956144000892001161871080008560011632014400089200116936108000856001170271440008920011730010800085600117391144000892001176641080008560011775514400089200117993108000856001181471440008920011835710800085600118511144000892001187211080008560011887514400089200119085108000856001192461440008920011944910800085600119603144000892001198201080008560011997414400089200120184108000856001203381440008920012054810800085600120702144000892001209121080008560012106614400089200121276108000856001214301440008920012164710800085600121794144000892001220111080008560012216514400089200122375108000856001225291440008920012273910800085600122893144000892001231031080008560012325714400089200123467108000856001236211440008920012383810800085600123985144000892001242021080008560012435614400089200124566108000856001247201440008920012493010800085600125084144000892001252941080008560012544814400089200125665108000856001258121440008920012602910800085600126183144000892001263931080008560012654714400089200126757108000856001269111440008920012712110800085600127275144000892001274851080008560012763914400089200127856108000856001280031440008920012822010800085600128374144000892001285841080008560012873814400089200128948108000856001291021440008920012931210800085600129466144000892001296761080008560012983014400089200130047108000856001302011440008920013041110800085600130565144000892001307751080008560013092914400089200131139108000856001312931440008920013150310800085600131657144000892001318741080008560013202114400089200132238108000856001323921440008920013260210800085600132756144000892001329661080008560013312014400089200133330108000856001334841440008920013369410800085600133848144000892001340651080008560013421214400089200134429108000856001345831440008920013479310800085600134947144000892001351571080008560013531114400089200135521108000856001356751440008920013589210800085600136039144000892001362561080008560013641014400089200136620108000856001367741440008920013698410800085600137138144000892001373481080008560013750214400089200137712108000856001378661440008920013808310800085600138230144000892001384471080008560013860114400089200138811108000856001389651440008920013917510800085600139329144000892001395391080008560013969314400089200139903108000856001400571440008920014027410800085600140428144000892001406381080008560014079214400089200141002108000856001411561440008920014136610800085600141520144000892001417301080008560014188414400089200142101108000856001422481440008920014246510800085600142619144000892001428291080008560014298314400089200143193108000856001433471440008920014355710800085600143711144000892001439211080008560014407514400089200144292108000856001444391440008920014465610800085600144810144000892001450201080008560014517414400089200145384108000856001455381440008920014574810800085600145902144000892001461191080008560014626614400089200146483108000856001466371440008920014684710800085600147001144000892001472111080008560014736514400089200">>,
       <<(0 - 16776), "0707811677608320008657660000082000098841180000856000989621440008200009993318000083800100051162000820001002971800008380010038416200082000100668180000838001007501620008200010103218000083800101116162000820001013961800008380010148116200082000101760180000856001112592160008200011129421600085600">>,
       <<(0 - 11188), "07954611188089200086030504000928000862110720008920008639610800092800086576072000892000926641080009280009280010800089200093029108000928000931500720008920009339410800092800093516072000892000937601080009280009385007200089200097738108000928000978680720008920009820410800092800098263072000892000985081080009280009859807200089200098843108000928000989630720008920009920810800092800099329072000892001057841080009280010591707200089200106141108000928001062530720008920010650610800092800106611072000892001068631080009280010696807200089200107227108000928001073460720008920010759810800092800107717072000892001079621080009280010807407200089200108333108000928001084310720008920010869010800092800108816072000892001090541080009280010918007200089200109418108000928001095370720008920010977510800092800109908072000892001101401080009280011028607200089200110510108000928001106430720008920011086710800092800111014072000892001112381080009280011137107200089200111609108000928001117350720008920011199410800092800112099072000892001123441080009280011246307200089200112724108000928001128340720008920011307210800092800113198072000892001134571080009280011356907200089200113800108000928001139260720008920011417110800092800114290072000892001145351080009280011466107200089200114899108000928001150250720008920011526310800092800115396072000892001156341080009280011575307200089200115998108000928001161170720008920011636210800092800116488072000892001167261080009280011685207200089200117090108000928001172160720008920011745410800092800117580072000892001178391080009280011794407200089200">>,
       <<(0 - 5272), "08048505272092800103748144000964001039231440009280010410507200100000104287036000964001044690360010000010465103600096400104833036001000001050150360009640010519703600100000105386036000964001055680360010000010575003600096400105932036001000001061140360009640010629603600100000106478036000964001066600360010000010684203600096400107024036001000001072060360009640010738803600100000107577036000964001077590360010000010794103600096400108123036001000001083050360009640010848703600100000108669036000964001088510360010000010903303600096400109215036001000001093970360009640010958603600100000109796036000964001099500360010000011016003600096400110314036001000001105240360009640011067803600100000110895036000964001110420360010000011125903600096400111406036001000001116230360009640011177703600100000111987036000964001121410360010000011235103600096400112505036001000001127220360009640011286903600100000113086036000964001132330360010000011345003600096400113597036001000001138140360009640011396803600100000114178036000964001143320360010000011454203600096400114696036001000001149130360009640011506003600100000115277036000964001154240360010000011564103600096400115795036001000001160050360009640011615903600100000116369036000964001165230360010000011673303600096400116887036001000001171040360009640011725103600100000117468036000964001176150360010000011783203600096400117986036001000001181960360009640011835003600100000118560036000964001187140360010000011893103600096400119078036001000001192950360009640011944203600100000119659036000964001198130360010000012002303600096400120177036001000001203870360009640012054103600100000120751036000964001209050360010000012112203600096400121269036001000001214860360009640012163303600100000121850036000964001220040360010000012221403600096400122368036001000001225780360009640012273203600100000122949036000964001230960360010000012331303600096400123460036001000001236770360009640012382403600100000124041036000964001241950360010000012440503600096400124559036001000001247690360009640012492303600100000125140036000964001252870360010000012550403600096400125651036001000001258680360009640012602203600100000126232036000964001263860360010000012659603600096400126750036001000001269600360009640012711403600100000127331036000964001274780360010000012769503600096400127842036001000001280590360009640012821303600100000128423036000964001285770360010000012878703600096400128941036001000001291580360009640012930503600100000129522036000964001296690360010000012988603600096400130040036001000001302500360009640013040403600100000130614036000964001307680360010000013097803600096400131132036001000001313490360009640013149603600100000131713036000964001318600360010000013207703600096400132231036001000001324410360009640013259503600100000132805036000964001329590360010000013317603600096400133323036001000001335400360009640013368703600100000133904036000964001340510360010000013426803600096400134422036001000001346320360009640013478603600100000134996036000964001351500360010000013536703600096400135514036001000001357310360009640013587803600100000136095036000964001362490360010000013645903600096400136613036001000001368230360009640013697703600100000137187036000964001373410360010000013755803600096400137705036001000001379220360009640013806903600100000138286036000964001384400360010000013865003600096400138804036001000001390140360009640013916803600100000139385036000964001395320360010000013974903600096400139896036001000001401130360009640014026703600100000140477036000964001406310360010000014084103600096400140995036001000001412050360009640014135903600100000141576036000964001417230360010000014194003600096400142087036001000001423040360009640014245803600100000142668036000964001428220360010000014303203600096400143186036001000001434030360009640014355003600100000143767036000964001439140360010000014413103600096400144278036001000001444950360009640014464903600100000144859036000964001450130360010000014522303600096400145377036001000001455940360009640014574103600100000145958036000964001461050360010000014632203600096400146476036001000001466860360009640014684003600100000147050036000964001472040360010000014741403600096400">>,
       <<53927, "0626710187306752707466475673071200089812360000748000911413240007120009975136000074800099933324000712001001153600007480010029732400071200100479360000748001006683240007120010085036000074800101032324000712001012143600007480010139632400071200101466360000748001017603240007120010187936000074800102124324000712001023063600007480010249532400071200102670360000748001028593240007120010304136000074800103223324000712001034053600007480010358732400071200103769360000748001039513240007120010413336000074800104315324000712001044973600007480010468632400071200104861360000748001050503240006760010523239600071200105414360000676001055963960007120010577836000067600105960396000712001061423600006760010630339600071200106506360000676001066673960007120010687736000067600107031396000712001072413600006760010739539600071200107605360000676001077663960007120010796936000067600108130396000712001083333600006760010849439600071200108704360000676001088583960007120010906836000067600109222396000712001094323600006760010959339600071200109796360000676001099573960007120011016036000067600110321396000712001105243600006760011068539600071200110895360000676001110493960007120011125936000067600111413396000712001116233600006760011178439600071200111987360000676001121483960007120011235136000067600112512396000712001127223600006760011287639600071200113086360000676001132403960007120011345036000067600113583396000712001138213600006760011394739600071200114185360000676001143113960007120011454936000067600114682396000712001149203600006760011504639600071200115284360000676001154103960007120011564836000067600115774396000712001160123600006760011613839600071200116376360000676001165023960007120011674036000067600116873396000712001171113600006760011723739600071200117475360000676001176013960007120011783936000067600117965396000712001182033600006760011832939600071200118567360000676001187003960007120011893836000067600119064396000712001193023600006760011942839600071200119666360000676001197923960007120012003036000067600120156396000712001203943600006760012052039600071200120758360000676001208913960007120012112936000067600121255396000712001214933600006760012161939600071200121857360000676001219833960007120012222136000067600122347396000712001225853600006760012271839600071200122956360000676001230823960007120012332036000067600123446396000712001236843600006760012381039600071200124048360000676001241743960007120012441236000067600124538396000712001247763600006760012490939600071200125147360000676001252733960007120012551136000067600125637396000712001258753600006760012600139600071200126239360000676001263653960007120012660336000067600126729396000712001269673600006760012710039600071200127338360000676001274643960007120012770236000067600127828396000712001280663600006760012819239600071200128430360000676001285563960007120012879436000067600128927396000712001291653600006760012929139600071200129529360000676001296553960007120012989336000067600130019396000712001302573600006760013038339600071200130621360000676001307473960007120013098536000067600131118396000712001313563600006760013148239600071200131720360000676001318463960007120013208436000067600132210396000712001324483600006760013257439600071200132812360000676001329453960007120013318336000067600133309396000712001335473600006760013367339600071200133911360000676001340373960007120013427536000067600134401396000712001346393600006760013476539600071200135003360000676001351363960007120013537436000067600135500396000712001357383600006760013586439600071200136102360000676001362283960007120013646636000067600136592396000712001368303600006760013695639600071200137194360000676001373273960007120013756536000067600137691396000712001379293600006760013805539600071200138293360000676001384193960007120013865736000067600138783396000712001390213600006760013915439600071200139392360000676001395183960007120013975636000067600139882396000712001401203600006760014024639600071200140484360000676001406103960007120014084836000067600140974396000712001412123600006760014134539600071200141583360000676001417093960007120014194736000067600142073396000712001423113600006760014243739600071200142675360000676001428013960007120014303936000067600143172396000712001434103600006760014353639600071200143774360000676001439003960007120014413836000067600144264396000712001445023600006760014462839600071200144866360000676001449923960007120014523036000067600145363396000712001456013600006760014572739600071200145965360000676001460913960007120014632936000067600146455396000712001466933600006760014681939600071200147057360000676001471833960007120014742136000067600">>,
       <<(0 - 12652), "08073919852090948080901162520873480811101985209094808130616252087348081497090520909480815960545208734808186009052090948082042054520873480822240905209094808240605452087348082595090520909480827700545208734808295909052090948083134054520873480833230905209094808349805452087348083687090520909480838620545208734808405109052090948084233054520873480844150905209094808459705452087348084786090520909480849610545208734808515009052090948085325054520873480855140905209094808568905452087348085878090520909480860530545208734808624209052090948086424054520873480866130905209094808678805452087348086977090520909480871520545208734808730412652087400087341090000910000875160540008740008771212600091000087859090000874000880761260009100008822309000087400088440126000910000885870900008740008881112600091000088951090000874000891751260009100008932209000087400089539126000910000896860900008740008990312600091000091141162000874000913651980009100009151216200087400091729198000910000918761620008740009209319800091000092240162000874000924571980009100009260416200087400092828198000910000929751620008740009317819800091000093332162000874000935421980009100009369616200087400093906198000910000940601620008740009427019800091000094424162000874000946341980009100009478816200087400095005198000910000951591620008740009536919800091000095523162000874000957331980009100009588716200087400096097198000910000962511620008740009646119800091000096650162000874000968321980009100009701416200087400097196198000910000973781620008740009756019800091000097742162000874000979241980009100009810616200087400098288198000910000984771620008740009865219800091000098841162000874000990231980009100009920516200087400099387198000910000995691620008740009975119800091000099933162000874001001151980009100010029716200087400100479198000910001006681620008740010085019800091000101032162000874001012141980009100010139616200087400101578198000910001017601620008740010194219800091000102124162000874001023061980009100010249516200087400102670198000910001028591620008740010304119800091000103223162000874001034051980009100010358716200087400103769198000910001039511620008740010413319800091000104315162000874001044971980009100010468616200087400104861198000910001050501620008740010523219800091000105414162000874001055961980009100010577816200087400105960198000910001061421620008740010630312660091000106506090600874001066671266009460010687705460087400107031126600910001072410906008740010739512660091000107605090600874001077661266009100010796909060087400108130126600910001083330906008740010849412660091000108704090600874001088581266009100010906809060087400109222126600910001094320906008740010959312660091000109796090600874001099571266009100011016009060087400110321126600910001105240906008740011068512660091000110895090600874001110491266009100011125909060087400111413126600910001116230906008740011178412660091000111987090600874001121481266009100011235109060087400112512126600910001127220906008740011287612660091000113086090600874001132401266009100011345009060087400113583126600910001138210906008740011394712660091000114185090600874001143111266009100011454909060087400114682126600910001149200906008740011504612660091000115284162000874001154101980009100011564816200087400115774198000910001160121620008740011613819800091000116376162000874001165021980009100011674016200087400116873198000910001171111620008740011723719800091000117475162000874001176011980009100011783916200087400117965198000910001182031620008740011832919800091000118567162000874001187001980009100011893816200087400119064198000910001193021620008740011942819800091000119666162000874001197921980009100012003016200087400120156198000910001203941620008740012052019800091000120758162000874001208911980009100012112916200087400121255198000910001214931620008740012161919800091000121857162000874001219831980009100012222116200087400122347198000910001225851620008740012271819800091000122956162000874001230821980009100012332016200087400123446198000910001236841620008740012381019800091000124048162000874001241741980009100012441216200087400124538198000910001247761620008740012490919800091000125147162000874001252731980009100012551116200087400125637198000910001258751620008740012600119800091000126239162000874001263651980009100012660316200087400126729198000910001269671620008740012710019800091000127338162000874001274641980009100012770216200087400127828198000910001280661620008740012819219800091000128430162000874001285561980009100012879416200087400128927198000910001291651620008740012929119800091000129529162000874001296551980009100012989316200087400130019198000910001302571620008740013038319800091000130621162000874001307471980009100013098516200087400131118198000910001313561620008740013148219800091000131720162000874001318461980009100013208416200087400132210198000910001324481620008740013257419800091000132812162000874001329451980009100013318316200087400133309198000910001335471620008740013367319800091000133911162000874001340371980009100013427516200087400134401198000910001346391620008740013476519800091000135003162000874001351361980009100013537416200087400135500198000910001357381620008740013586419800091000136102162000874001362281980009100013646616200087400136592198000910001368301620008740013695619800091000137194162000874001373271980009100013756516200087400137691198000910001379291620008740013805519800091000138293162000874001384191980009100013865716200087400138783198000910001390211620008740013915419800091000139392162000874001395181980009100013975616200087400139882198000910001401201620008740014024619800091000140484162000874001406101980009100014084816200087400140974198000910001412121620008740014134519800091000141583162000874001417091980009100014194716200087400142073198000910001423111620008740014243719800091000142675162000874001428011980009100014303916200087400143172198000910001434101620008740014353619800091000143774162000874001439001980009100014413816200087400144264198000910001445021620008740014462819800091000144866162000874001449921980009100014523016200087400145363198000910001456011620008740014572719800091000145965162000874001460911980009100014632916200087400146455198000910001466931620008740014681919800091000147057162000874001471831980009100014742116200087400">>,
       <<(0 - 15052), "07887615052085600">>,
       <<(0 - 14640), "07881514640085600">>,
       <<(0 - 15584), "07863115584085600">>,
       <<(0 - 14696), "07881514696085600">>,
       <<(0 - 25880), "07650225880074800081110324000784000813062880007480008981232400078400091141288000748000913513240007840009151928800074800091715324000784000918692880007480009207932400078400092233288000748000924433240007840009259728800074800095369324000784000955512880007480009609732400078400096279288000748000964613240007840009661528800074800096832324000784000969792880007480010085032400078400">>,
       <<(0 - 20932), "08219320932078400106331216000820001064781800007840010669521600082000106842180000784001132752160008200011336718000078400">>,
       <<(0 - 16508), "080485165080856001077592160008920010794118000085600108123216000892001083051800008560010849421600089200108704180000856001088582160008920010906818000085600109222216000892001094321800008560010959321600089200109796180000856001099572160008920011016018000085600110321216000892001105241800008560011068521600089200110895180000856001110492160008920011125918000085600111413216000892001116231800008560011178421600089200111987180000856001121482160008920011235118000085600112512216000892001127221800008560011287621600089200113086180000856001132402160008920011345018000085600113583216000892001138211800008560011394721600089200114185180000856001143112160008920011454918000085600114682216000892001149201800008560011504621600089200115284180000856001154102160008920011564818000085600115774216000892001160121800008560011613821600089200116376180000856001165022160008920011674018000085600116873216000892001171111800008560011723721600089200117475180000856001176012160008920011783918000085600117965216000892001182031800008560011832921600089200118567180000856001187002160008920011893818000085600119064216000892001193021800008560011942821600089200119666180000856001197922160008920012003018000085600120156216000892001203941800008560012052021600089200120758180000856001208912160008920012112918000085600121255216000892001214931800008560012161921600089200121857180000856001219832160008920012222118000085600122347216000892001225851800008560012271821600089200122956180000856001230822160008920012332018000085600123446216000892001236841800008560012381021600089200124048180000856001241742160008920012441218000085600124538216000892001247761800008560012490921600089200125147180000856001252732160008920012551118000085600125637216000892001258751800008560012600121600089200126239180000856001263652160008920012660318000085600126729216000892001269671800008560012710021600089200127338180000856001274642160008920012770218000085600127828216000892001280661800008560012819221600089200128430180000856001285562160008920012879418000085600128927216000892001291651800008560012929121600089200129529180000856001296552160008920012989318000085600130019216000892001302571800008560013038321600089200130621180000856001307472160008920013098518000085600131118216000892001313561800008560013148221600089200131720180000856001318462160008920013208418000085600132210216000892001324481800008560013257421600089200132812180000856001329452160008920013318318000085600133309216000892001335471800008560013367321600089200133911180000856001340372160008920013427518000085600134401216000892001346391800008560013476521600089200135003180000856001351362160008920013537418000085600135500216000892001357381800008560013586421600089200136102180000856001362282160008920013646618000085600136592216000892001368301800008560013695621600089200137194180000856001373272160008920013756518000085600137691216000892001379291800008560013805521600089200138293180000856001384192160008920013865718000085600138783216000892001390211800008560013915421600089200139392180000856001395182160008920013975618000085600139882216000892001401201800008560014024621600089200140484180000856001406102160008920014084818000085600140974216000892001412121800008560014134521600089200141583180000856001417092160008920014194718000085600142073216000892001423111800008560014243721600089200142675180000856001428012160008920014303918000085600143172216000892001434101800008560014353621600089200143774180000856001439002160008920014413818000085600144264216000892001445021800008560014462821600089200144866180000856001449922160008920014523018000085600145363216000892001456011800008560014572721600089200145965180000856001460912160008920014632918000085600146455216000892001466931800008560014681921600089200147057180000856001471832160008920014742118000085600">>,
       <<(0 - 15508), "07863115508085600">>,
       <<(0 - 29548), "06858929548071200081110360000748000813063240007120008981236000074800091141324000712000913513600007480009150532400071200091715360000748000918693240007120009207936000074800092233324000712000924433600007480009259732400071200092814360000748000929613240007120009317836000074800093332324000712000935423600007480009369632400071200093906360000748000940603240007120009427036000074800094424324000712000946343600007480009478832400071200095005360000748000951593240007120009536936000074800095523324000712000957333600007480009588732400071200096097360000748000962513240007120009646136000074800096615324000712000968323600007480009697932400071200097196360000748000973783240007120009756036000074800097742324000712000979243600007480009810632400071200098288360000748000984773240007120009865236000074800098841324000712000990233600007480009920532400071200099387360000748000995693240007120009975136000074800099933324000712001001153600007480010029732400071200100479360000748001006683240007120010085036000074800101032324000712001012143600007480010139632400071200101578360000748001017603240007120010194236000074800102124324000712001023063600007480010249532400071200102670360000748001028593240007120010304136000074800103223324000712001034053600007480010358732400071200103769360000748001039513240007120010413336000074800104315324000712001044973600007480010468632400071200104861360000748001050503240007120010523236000074800105414324000712001055963600007480010577832400071200105960360000748001061423240007120010630336000074800106506324000712001066673600007480010687732400071200107031360000748001072413240007120010739536000074800107605324000712001077663600007480010796932400071200108130360000748001083333240007120010849436000074800108704324000712001088583600007480010906832400071200109222360000748001094323240007120010959336000074800109796324000712001099573600007480011016032400071200110321360000748001105243240007120011068536000074800110895324000712001110493600007480011125932400071200111413360000748001116233240007120011178436000074800111987324000712001121483600007480011235132400071200112512360000748001127223240007120011287636000074800113086324000712001132403600007480011345032400071200113583360000748001138213240007120011394736000074800114185324000712001143113600007480011454932400071200114682360000748001149203240007120011504636000074800115284324000712001154103600007480011564832400071200115774360000748001160123240007120011613836000074800116376324000712001165023600007480011674032400071200116873360000748001171113240007120011723736000074800117475324000712001176013600007480011783932400071200117965360000748001182033240007120011832936000074800118567324000712001187003600007480011893832400071200119064360000748001193023240007120011942836000074800119666324000712001197923600007480012003032400071200120156360000748001203943240007120012052036000074800120758324000712001208913600007480012112932400071200121255360000748001214933240007120012161936000074800121857324000712001219833600007480012222132400071200122347360000748001225853240007120012271836000074800122956324000712001230823600007480012332032400071200123446360000748001236843240007120012381036000074800124048324000712001241743600007480012441232400071200124538360000748001247763240007120012490936000074800125147324000712001252733600007480012551132400071200125637360000748001258753240007120012600136000074800126239324000712001263653600007480012660332400071200126729360000748001269673240007120012710036000074800127338324000712001274643600007480012770232400071200127828360000748001280663240007120012819236000074800128430324000712001285563600007480012879432400071200128927360000748001291653240007120012929136000074800129529324000712001296553600007480012989332400071200130019360000748001302573240007120013038336000074800130621324000712001307473600007480013098532400071200131118360000748001313563240007120013148236000074800131720324000712001318463600007480013208432400071200132210360000748001324483240007120013257436000074800132812324000712001329453600007480013318332400071200133309360000748001335473240007120013367336000074800133911324000712001340373600007480013427532400071200134401360000748001346393240007120013476536000074800135003324000712001351363600007480013537432400071200135500360000748001357383240007120013586436000074800136102324000712001362283600007480013646632400071200136592360000748001368303240007120013695636000074800137194324000712001373273600007480013756532400071200137691360000748001379293240007120013805536000074800138293324000712001384193600007480013865732400071200138783360000748001390213240007120013915436000074800139392324000712001395183600007480013975632400071200139882360000748001401203240007120014024636000074800140484324000712001406103600007480014084832400071200140974360000748001412123240007120014134536000074800141583324000712001417093600007480014194732400071200142073360000748001423113240007120014243736000074800142675324000712001428013600007480014303932400071200143172360000748001434103240007120014353636000074800143774324000712001439003600007480014413832400071200144264360000748001445023240007120014462836000074800144866324000712001449923600007480014523032400071200145363360000748001456013240007120014572736000074800145965324000712001460913600007480014632932400071200146455360000748001466933240007120014681936000074800147057324000712001471833600007480014742132400071200">>,
       <<(0 - 32412), "07466432412067600081110396000712000813063600006760008151639600071200081676288000676000898123960007120009114136000067600098288324000748000984773240006760009859632400071200103769360000748001039513240007120010413336000074800104315324000712001044973600007480010468632400071200104861360000748001050503240007120010523236000074800105414324000712001055963600007480010577832400071200105960360000748001061423240007120010630336000074800106506324000712001066673600007480010687732400071200107031360000748001072413240007120010739536000074800107605324000712001077663600007480010796932400071200108130360000748001083333240007120010849436000074800108704324000712001088583600007480010906832400071200109222360000748001094323240007120010959336000074800109796324000712001099573600007480011016032400071200110321360000748001105243240007120011068536000074800110895324000712001110493600007480011125932400071200111413360000748001116233240007120011178436000074800111987324000712001121483600007480011235132400071200112512360000748001127223240007120011287636000074800113086324000712001132403600007480011345032400071200113583360000748001138213240007120011394736000074800114185324000712001143113600007480011454932400071200114682360000748001149203240007120011504636000074800115284324000712001154103600007480011564832400071200115774360000748001160123240007120011613836000074800116376324000712001165023600007480011674032400071200116873360000748001171113240007120011723736000074800117475324000712001176013600007480011783932400071200117965360000748001182033240007120011832936000074800">>,
       <<52865, "0626710187306646507466476735067600089812396000712000911413600006760009975139600071200099933360000676001001153960007120010029736000067600100479396000712001006683600006760010085039600071200101032360000676001012143960007120010139636000067600101466396000712001017603600006760010187939600071200102124360000676001023063960007120010249536000067600102670396000712001028593600006760010304139600071200103223360000676001034053960007120010358736000067600103769396000712001039513600006760010413339600071200104315360000676001044973960007120010468636000067600104861396000712001050503600006760010523239600071200105414360000676001055963960007120010577836000067600105960396000712001061423600006760010630339600071200106506360000676001066673960007120010687736000067600107031396000712001072413600006760010739539600071200107605360000676001077663960007120010796936000067600108130396000712001083333600006760010849439600071200108704360000676001088583960007120010906836000067600109222396000712001094323600006760010959339600071200109796360000676001099573960007120011016036000067600110321396000712001105243600006760011068539600071200110895360000676001110493960007120011125936000067600111413396000712001116233600006760011178439600071200111987360000676001121483960007120011235136000067600112512396000712001127223600006760011287639600071200113086360000676001132403960007120011345036000067600113583396000712001138213600006760011394739600071200114185360000676001143113960007120011454936000067600114682396000712001149203600006760011504639600071200115284360000676001154103960007120011564836000067600115774396000712001160123600006760011613839600071200116376360000676001165023960007120011674036000067600116873396000712001171113600006760011723739600071200117475360000676001176013960007120011783936000067600117965396000712001182033600006760011832939600071200118567360000676001187003960007120011893836000067600119064396000712001193023600006760011942839600071200119666360000676001197923960007120012003036000067600120156396000712001203943600006760012052039600071200120758360000676001208913960007120012112936000067600121255396000712001214933600006760012161939600071200121857360000676001219833960007120012222136000067600122347396000712001225853600006760012271839600071200122956360000676001230823960007120012332036000067600123446396000712001236843600006760012381039600071200124048360000676001241743960007120012441236000067600124538396000712001247763600006760012490939600071200125147360000676001252733960007120012551136000067600125637396000712001258753600006760012600139600071200126239360000676001263653960007120012660336000067600126729396000712001269673600006760012710039600071200127338360000676001274643960007120012770236000067600127828396000712001280663600006760012819239600071200128430360000676001285563960007120012879436000067600128927396000712001291653600006760012929139600071200129529360000676001296553960007120012989336000067600130019396000712001302573600006760013038339600071200130621360000676001307473960007120013098536000067600131118396000712001313563600006760013148239600071200131720360000676001318463960007120013208436000067600132210396000712001324483600006760013257439600071200132812360000676001329453960007120013318336000067600133309396000712001335473600006760013367339600071200133911360000676001340373960007120013427536000067600134401396000712001346393600006760013476539600071200135003360000676001351363960007120013537436000067600135500396000712001357383600006760013586439600071200136102360000676001362283960007120013646636000067600136592396000712001368303600006760013695639600071200137194360000676001373273960007120013756536000067600137691396000712001379293600006760013805539600071200138293360000676001384193960007120013865736000067600138783396000712001390213600006760013915439600071200139392360000676001395183960007120013975636000067600139882396000712001401203600006760014024639600071200140484360000676001406103960007120014084836000067600140974396000712001412123600006760014134539600071200141583360000676001417093960007120014194736000067600142073396000712001423113600006760014243739600071200142675360000676001428013960007120014303936000067600143172396000712001434103600006760014353639600071200143774360000676001439003960007120014413836000067600144264396000712001445023600006760014462839600071200144866360000676001449923960007120014523036000067600145363396000712001456013600006760014572739600071200145965360000676001460913960007120014632936000067600146455396000712001466933600006760014681939600071200147057360000676001471833960007120014742136000067600">>,
       <<0, "099635000001288001145346480013960011467254000128800115274648001396001153916120012880011709557600139600117600612001288001178107200013960011797157600128800118172684001396001183285760012880011853857660139600">>,
       <<0, "09526400000125200098112612001000000996660000012520011453468400118000114678720001252001152746840011800011539172000125200">>,
       <<0, "091599000001360000934375040010000009519100000136000">>,
       <<0, "07437200000136000080549576001396000807245760013600008146150400100000092048000001360000991765760013960009935857600136000099568576001396000997015760013600009993257600139600100065576001360001002965760013960010043657600136000100667576001396001007865760013600010103157600139600101157576001360001013955760013960010152157600136000101759576001396001018855760013600010212357600139600102256576001360001024945760013960010262057600136000102858576001396001029845760013600010322257600139600103348576001360001035865760013960010371257600136000103950576001396001040765760013600010431457600139600104468576001360001046855760013960010483257600136000105049576001396001051755760013600010541357600139600105539576001360001057775760013960010590357600136000106134576001396001062815760013600010650557600139600106652576001360001068765760013960010701657600136000107240576001396001073805760013600010760457600139600107758576001360001079475760013960010812257600136000108311576001396001084865760013600010867557600139600108850576001360001090395760013960010921457600136000109403576001396001095855760013600010977457600139600109949576001360001101385760013960011031357600136000110502576001396001106775760013600011086657600139600111041576001360001111955760013960011140557600136000111601576001396001117765760013600011196557600139600112140576001360001123295760013960011250457600136000112693576001396001128685760013600011305757600139600113239576001360001134215760013960011359657600136000113792576001396001139745760013600011415657600139600114338576001360001145205760013960011506657600136000115248576001396001154305760013600011561957600139600115801576001360001159835760013960011616557600136000116347576001396001165295760013600011671157600139600116893576001360001170755760013960011725757600136000117439576001396001176215760013600011781057600139600117992576001360001181745760013960011835657600136000118538576001396001187205760013600011890257600139600119084576001360001192665760013960011944857600136000119630576001396001198195760013600012000157600139600120183576001360001203655760013960012054757600136000120729576001396001209115760013600012109357600139600121275576001360001214575760013960012163957600136000121828576001396001220105760013600012219257600139600122374576001360001225565760013960012273857600136000122920576001396001231025760013600012328457600139600123466576001360001236485760013960012383057600136000124019576001396001242015760013600012438357600139600124565576001360001247475760013960012492957600136000125111576001396001252935760013600012547557600139600125657576001360001258465760013960012602857600136000126210576001396001263925760013600012657457600139600126756576001360001269385760013960012712057600136000127302576001396001274845760013600012766657600139600127848576001360001280375760013960012821957600136000128401576001396001285835760013600012876557600139600128947576001360001291295760013960012931157600136000129493576001396001296755760013600012985757600139600130046576001360001302285760013960013041057600136000130592576001396001307745760013600013095657600139600131138576001360001313205760013960013150257600136000131684576001396001318665760013600013205557600139600132237576001360001324195760013960013260157600136000132783576001396001329655760013600013314757600139600133329576001360001335115760013960013369357600136000133875576001396001340575760013600013424657600139600134428576001360001346105760013960013479257600136000134974576001396001351565760013600013533857600139600135520576001360001357025760013960013588457600136000136073576001396001362555760013600013643757600139600136619576001360001368015760013960013698357600136000137165576001396001373475760013600013752957600139600137711576001360001378935760013960013807557600136000138264576001396001384465760013600013862857600139600138810576001360001389925760013960013917457600136000139356576001396001395385760013600013972057600139600139902576001360001400845760013960014027357600136000140455576001396001406375760013600014081957600139600141001576001360001411835760013960014136557600136000141547576001396001417295760013600014191157600139600142093576001360001422825760013960014246457600136000142646576001396001428285760013600014301057600139600143192576001360001433745760013960014355657600136000143738576001396001439205760013600014410257600139600144284576001360001444735760013960014465557600136000144837576001396001450195760013600014520157600139600145383576001360001455655760013960014574757600136000145929576001396001461115760013600014630057600139600146482576001360001466645760013960014684657600136000147028576001396001472105760013600014739257600139600">>,
       <<0, "0941990000012160011453472000118000">>,
       <<0, "094886000001432001017665040014680010187850400143200102123504001468001022565040014320010249450400146800102620504001432001028585040014680010298450400143200103222504001468001033485040014320010358650400146800103712504001432001039505040014680010407650400143200104314504001468001044475040014320010468550400146800104811504001432001050495040014680010517550400143200105413504001468001055395040014320010577750400146800105903504001432001061415040014680010626750400143200106505504001468001066385040014320010687650400146800107002504001432001072195040014680010738050400143200107583504001468001077445040014320010794750400146800108108504001432001083115040014680010847950400143200108675504001468001088435040014320010903950400146800109207504001432001094035040014680010957150400143200109774504001468001099355040014320011013850400146800110299504001432001105025040014680011067050400143200110866504001468001110345040014320011123050400146800111398504001432001116015040014680011176250400143200111965504001468001121265040014320011232950400146800112497504001432001126935040014680011286150400143200113057504001468001132255040014320011342150400146800113589504001432001137855040014680011397450400143200114149504001468001143385040014320011451350400146800114702504001432001148775040014680011506650400143200115241504001468001154305040014320011561250400146800115801504001432001159765040014680011616550400143200116340504001468001165295040014320011670450400146800116893504001432001170685040014680011725750400143200117432504001468001176215040014320011780350400146800117992504001432001181675040014680011835650400143200118531504001468001187205040014320011889550400146800119084504001432001192595040014680011944850400143200119623504001468001198195040014320011999450400146800120183504001432001203585040014680012054750400143200120722504001468001209115040014320012108650400146800121275504001432001214505040014680012163950400143200121821504001468001220105040014320012218550400146800122374504001432001225495040014680012273850400143200122913504001468001231025040014320012327750400146800123466504001432001236415040014680012383050400143200124012504001468001242015040014320012437650400146800124565504001432001247405040014680012492950400143200125104504001468001252935040014320012546850400146800125657504001432001258395040014680012602850400143200126203504001468001263925040014320012656750400146800126756504001432001269315040014680012712050400143200127295504001468001274845040014320012765950400146800127848504001432001280305040014680012821950400143200128394504001468001285835040014320012875850400146800128947504001432001291225040014680012931150400143200129486504001468001296755040014320012985050400146800130046504001432001302215040014680013041050400143200130585504001468001307745040014320013094950400146800131138504001432001313135040014680013150250400143200131677504001468001318665040014320013204850400146800132237504001432001324125040014680013260150400143200132776504001468001329655040014320013314050400146800133329504001432001335045040014680013369350400143200133868504001468001340575040014320013423950400146800134428504001432001346035040014680013479250400143200134967504001468001351565040014320013533150400146800135520504001432001356955040014680013588450400143200136066504001468001362555040014320013643050400146800136619504001432001367945040014680013698350400143200137158504001468001373475040014320013752250400146800137711504001432001378865040014680013807550400143200138257504001468001384465040014320013862150400146800138810504001432001389855040014680013917450400143200139349504001468001395385040014320013971350400146800139902504001432001400775040014680014027350400143200140448504001468001406375040014320014081250400146800141001504001432001411765040014680014136550400143200141540504001468001417295040014320014190450400146800142093504001432001422755040014680014246450400143200142639504001468001428285040014320014300350400146800143192504001432001433675040014680014355650400143200143731504001468001439205040014320014409550400146800144284504001432001444665040014680014465550400143200144830504001468001450195040014320014519450400146800145383504001432001455585040014680014574750400143200145922504001468001461115040014320014629350400146800146482504001432001466575040014680014684650400143200147021504001468001472105040014320014738550400146800">>,
       <<0, "098174000000892000982331080008560009846114400089200098598108000856000988261440008920009899510800085600099177144000892000993661080008560009954814400089200099730108000856000999121440008920010148310800092800101581072000892001045031080008560010466514400089200104819108000856001050291440008920010518310800085600105400144000892001055471080008560010576414400089200105911108000856001061281440008920010631010800085600106492144000892001066461080008560010685614400089200107010108000856001072271440008920010737410800085600107563144000892001077381080008560010795514400089200108109108000856001083191440008920010847310800085600108683144000892001088371080008560010904714400089200109201108000856001094181440008920010956510800085600109782144000892001099501080008560011014614400089200110300108000856001104961440008920011068510800085600110874144000892001110281080008560011124514400089200111392108000856001116091440008920011175610800085600111973144000892001121201080008560011233714400089200112491108000856001127011440008920011285510800085600113065144000892001132191080008560011343614400089200113583108000856001138001440008920011396810800085600114164144000892001143181080008560011452814400089200114703108000856001148921440008920011510210800085600115207144000892001154591080008560011558514400089200115823108000856001159561440008920011618710800085600116320144000892001169361080008560011702714400089200">>,
       <<0, "10252600000089200">>,
       <<41944, "063050444561414000846025220014500008472148600141400084945522001432000850995040014140008530952200143200085463504001414000856735220014320008582750400141400086037522001432000861985040014140008640152200143200086562504001414000867655220014320008696850400141400087122522001432000873325040014140008748652200143200087696504001414000878505220014320008806050400141400088214522001432000884245040014140008857852200143200088795504001414000889425220014320008915950400141400089313522001432001017665040014680010187850400143200102123504001468001022565040014320010249450400146800102620504001432001028585040014680010298450400143200103222504001468001033485040014320010358650400146800103712504001432001039505040014680010407650400143200104314504001468001044475040014320010468550400146800104811504001432001050495040014680010517550400143200105413504001468001055395040014320010577750400146800105903504001432001061415040014680010626750400143200106505504001468001066385040014320010687650400146800107002504001432001072195040014680010738050400143200107583504001468001077445040014320010794750400146800108108504001432001083115040014680010847950400143200108675504001468001088435040014320010903950400146800109207504001432001094035040014680010957150400143200109774504001468001099355040014320011013850400146800110299504001432001105025040014680011067050400143200110866504001468001110345040014320011123050400146800111398504001432001116015040014680011176250400143200111965504001468001121265040014320011232950400146800112497504001432001126935040014680011286150400143200113057504001468001132255040014320011342150400146800113589504001432001137855040014680011397450400143200114149504001468001143385040014320011451350400146800114702504001432001148775040014680011506650400143200115241504001468001154305040014320011561250400146800115801504001432001159765040014680011616550400143200116340504001468001165295040014320011670450400146800116893504001432001170685040014680011725750400143200117432504001468001176215040014320011780350400146800117992504001432001181675040014680011835650400143200118531504001468001187205040014320011889550400146800119084504001432001192595040014680011944850400143200119623504001468001198195040014320011999450400146800120183504001432001203585040014680012054750400143200120722504001468001209115040014320012108650400146800121275504001432001214505040014680012163950400143200121821504001468001220105040014320012218550400146800122374504001432001225495040014680012273850400143200122913504001468001231025040014320012327750400146800123466504001432001236415040014680012383050400143200124012504001468001242015040014320012437650400146800124565504001432001247405040014680012492950400143200125104504001468001252935040014320012546850400146800125657504001432001258395040014680012602850400143200126203504001468001263925040014320012656750400146800126756504001432001269315040014680012712050400143200127295504001468001274845040014320012765950400146800127848504001432001280305040014680012821950400143200128394504001468001285835040014320012875850400146800128947504001432001291225040014680012931150400143200129486504001468001296755040014320012985050400146800130046504001432001302215040014680013041050400143200130585504001468001307745040014320013094950400146800131138504001432001313135040014680013150250400143200131677504001468001318665040014320013204850400146800132237504001432001324125040014680013260150400143200132776504001468001329655040014320013314050400146800133329504001432001335045040014680013369350400143200133868504001468001340575040014320013423950400146800134428504001432001346035040014680013479250400143200134967504001468001351565040014320013533150400146800135520504001432001356955040014680013588450400143200136066504001468001362555040014320013643050400146800136619504001432001367945040014680013698350400143200137158504001468001373475040014320013752250400146800137711504001432001378865040014680013807550400143200138257504001468001384465040014320013862150400146800138810504001432001389855040014680013917450400143200139349504001468001395385040014320013971350400146800139902504001432001400775040014680014027350400143200140448504001468001406375040014320014081250400146800141001504001432001411765040014680014136550400143200141540504001468001417295040014320014190450400146800142093504001432001422755040014680014246450400143200142639504001468001428285040014320014300350400146800143192504001432001433675040014680014355650400143200143731504001468001439205040014320014409550400146800144284504001432001444665040014680014465550400143200144830504001468001450195040014320014519450400146800145383504001432001455585040014680014574750400143200145922504001468001461115040014320014629350400146800146482504001432001466575040014680014684650400143200147021504001468001472105040014320014738550400146800">>,
       <<0, "09528000000110800">>,
       <<0, "11286903600107200113086036001000001132330360010720011345003600100000113597036001072001138140360010000011396803600107200114178036001000001143320360010720011454203600100000114696036001072001149130360010000011506003600107200115277036001000001154240360010720011564103600100000115795036001072001160050360010000011615903600107200116369036001000001165230360010720011673303600100000116887036001072001171040360010000011725103600107200117468036001000001176150360010720011783203600100000117986036001072001181960360010000011835003600107200118560036001000001187140360010720011893103600100000119078036001072001192950360010000011944203600107200119659036001000001198130360010720012002303600100000120177036001072001203870360010000012054103600107200120751036001000001209050360010720012112203600100000121269036001072001214860360010000012163303600107200121850036001000001220040360010720012221403600100000122368036001072001225780360010000012273203600107200122949036001000001230960360010720012331303600100000123460036001072001236770360010000012382403600107200124041036001000001241950360010720012440503600100000124559036001072001247690360010000012492303600107200125140036001000001252870360010720012550403600100000125651036001072001258680360010000012602203600107200126232036001000001263860360010720012659603600100000126750036001072001269600360010000012711403600107200127331036001000001274780360010720012769503600100000127842036001072001280590360010000012821303600107200128423036001000001285770360010720012878703600100000128941036001072001291580360010000012930503600107200129522036001000001296690360010720012988603600100000130040036001072001302500360010000013040403600107200130614036001000001307680360010720013097803600100000131132036001072001313490360010000013149603600107200131713036001000001318600360010720013207703600100000132231036001072001324410360010000013259503600107200132805036001000001329590360010720013317603600100000133323036001072001335400360010000013368703600107200133904036001000001340510360010720013426803600100000134422036001072001346320360010000013478603600107200134996036001000001351500360010720013536703600100000135514036001072001357310360010000013587803600107200136095036001000001362490360010720013645903600100000136613036001072001368230360010000013697703600107200137187036001000001373410360010720013755803600100000137705036001072001379220360010000013806903600107200138286036001000001384400360010720013865003600100000138804036001072001390140360010000013916803600107200139385036001000001395320360010720013974903600100000139896036001072001401130360010000014026703600107200140477036001000001406310360010720014084103600100000140995036001072001412050360010000014135903600107200141576036001000001417230360010720014194003600100000142087036001072001423040360010000014245803600107200142668036001000001428220360010720014303203600100000143186036001072001434030360010000014355003600107200143767036001000001439140360010720014413103600100000144278036001072001444950360010000014464903600107200144859036001000001450130360010720014522303600100000145377036001072001455940360010000014574103600107200145958036001000001461050360010720014632203600100000146476036001072001466860360010000014684003600107200147050036001000001472040360010720014741403600100000">>,
       <<0, "09560100000121600">>,
       <<3208, "071966831921036000803967920010720008054982800103600080747036001072000809010360010360008111103600107200081265036001036000891330360010720009007803600103600090225036001072000904140360010360009059603600107200090778036001036000909600360010720009101200000110800091135000001072000911900360010360009133703600107200091513036001036000916940720010720009172903600110800091778000001072000918760360010360009207203600107200092240036001036000924290360010720009260403600103600103748036001072001039230360010360010410503600107200104287036001036001044690360010720010465103600103600104833036001072001050150360010360010519703600107200105386036001036001055680360010720010575003600103600105932036001072001061140360010360010629603600107200106478036001036001066600360010720010684203600103600107024036001072001072060360010360010738803600107200107577036001036001077590360010720010794103600103600108123036001072001083050360010360010848703600107200108669036001036001088510360010720010903303600103600109215036001072001093970360010360010958603600107200109796036001036001099500360010720011016003600103600110314036001072001105240360010360011067803600107200110895036001036001110420360010720011125903600103600111406036001072001116230360010360011177703600107200111987036001036001121410360010720011235103600103600112505036001072001127220360010360011286903600107200113086036001036001132330360010720011345003600103600113597036001072001138140360010360011396803600107200114178036001036001143320360010720011454203600103600114696036001072001149130360010360011506003600107200115277036001036001154240360010720011564103600103600115795036001072001160050360010360011615903600107200116369036001036001165230360010720011673303600103600116887036001072001171040360010360011725103600107200117468036001036001176150360010720011783203600103600117986036001072001181960360010360011835003600107200118560036001036001187140360010720011893103600103600119078036001072001192950360010360011944203600107200119659036001036001198130360010720012002303600103600120177036001072001203870360010360012054103600107200120751036001036001209050360010720012112203600103600121269036001072001214860360010360012163303600107200121850036001036001220040360010720012221403600103600122368036001072001225780360010360012273203600107200122949036001036001230960360010720012331303600103600123460036001072001236770360010360012382403600107200124041036001036001241950360010720012440503600103600124559036001072001247690360010360012492303600107200125140036001036001252870360010720012550403600103600125651036001072001258680360010360012602203600107200126232036001036001263860360010720012659603600103600126750036001072001269600360010360012711403600107200127331036001036001274780360010720012769503600103600127842036001072001280590360010360012821303600107200128423036001036001285770360010720012878703600103600128941036001072001291580360010360012930503600107200129522036001036001296690360010720012988603600103600130040036001072001302500360010360013040403600107200130614036001036001307680360010720013097803600103600131132036001072001313490360010360013149603600107200131713036001036001318600360010720013207703600103600132231036001072001324410360010360013259503600107200132805036001036001329590360010720013317603600103600133323036001072001335400360010360013368703600107200133904036001036001340510360010720013426803600103600134422036001072001346320360010360013478603600107200134996036001036001351500360010720013536703600103600135514036001072001357310360010360013587803600107200136095036001036001362490360010720013645903600103600136613036001072001368230360010360013697703600107200137187036001036001373410360010720013755803600103600137705036001072001379220360010360013806903600107200138286036001036001384400360010720013865003600103600138804036001072001390140360010360013916803600107200139385036001036001395320360010720013974903600103600139896036001072001401130360010360014026703600107200140477036001036001406310360010720014084103600103600140995036001072001412050360010360014135903600107200141576036001036001417230360010720014194003600103600142087036001072001423040360010360014245803600107200142668036001036001428220360010720014303203600103600143186036001072001434030360010360014355003600107200143767036001036001439140360010720014413103600103600144278036001072001444950360010360014464903600107200144859036001036001450130360010720014522303600103600145377036001072001455940360010360014574103600107200145958036001036001461050360010720014632203600103600146476036001072001466860360010360014684003600107200147050036001036001472040360010720014741403600103600">>,
       <<10794, "09269475606110800">>,
       <<18468, "0833196793211800008556068400121600104107648001252001042906120012160010447264800125200104655612001216001048376480012520010502061200121600105203648001252001053857200012160010556772000125200105749720001216001059317200012520010611372000121600106295720001252001064777200012160010665972000125200106841720001216001070237200012520010720572000121600107387720001252001075767200012160010794075600118000108052756001216001081227200012520010830472000121600108486720001252001086687200012160010885072000125200109032720001216001092147200012520010939672000121600109585720001252001097957200012160010994972000125200110159720001216001103137200012520011052372000121600110677720001252001108947200012160011104172000125200111258720001216001114057200012520011162272000121600111776720001252001119867200012160011214072000125200112350720001216001125047200012520011272172000121600">>,
       <<8624, "0857547777610720010125179200110800101368756001072001015807920011080010173375600107200101945792001108001020987560010720010231179200110800102495756001072001026767920011080010282975600107200103040792001108001031937560010720010556879200110800105751756001072001059367920011080010611875600107200106300792001108001064827560010720010666479200110800106853756001072001070667920011080010721775600107200107420792001108001075817560010720010777579200110800107938756001072001081347920011080010830975600107200108491792001108001086737560010720010885579200110800109023756001072001092267920011080010938779200107200109590792001108001097587920010720010995479200110800110122792001072001103187920011080011048679200107200110772792001108001108577920010720011104579200110800111228792001072001114097920011080011159279200107200111774792001108001119567920010720011213879200110800112348792001072001125027920011080011270579200107200112873792001108001130557920010720011323779200110800113447792001072001136017920011080011381179200107200113965792001108001141827920010720011432979200110800114546792001072001146937920011080011491079200107200115064792001108001152747920010720011542879200110800116058756001072001161567920011080011637379200107200116520792001108001167377920010720011689179200110800117101792001072001172557920011080011746579200107200117619792001108001178297920010720011798379200110800118193792001072001183477920011080011856479200107200118711792001108001189287920010720011904779200110800">>,
       <<42596, "08331943804143200085560432001468001041073960015040010429036000146800104655396001432001048374320014680010502039600143200105203432001468001053855040014320010556750400146800105749504001432001059315040014680010611350400143200106295504001468001064775040014320010665950400146800106841504001432001070235040014680010720550400143200107387504001468001075765040014320010794054000139600108052540001432001081225040014680010830450400143200108486504001468001086685040014320010885050400146800109032504001432001092145040014680010939650400143200109585504001468001097955040014320010994950400146800110159504001432001103135040014680011052350400143200110677504001468001108945040014320011104150400146800111258504001432001114055040014680011162250400143200111776504001468001119865040014320011214050400146800112350504001432001125045040014680011272150400143200112868504001468001130855040014320011323250400146800113449504001432001135965040014680011381350400143200113967504001468001141775040014320011433150400146800114541504001432001149125400013960011505954000143200">>,
       <<12064, "0833197433611440008556072000118000104290684001216001046556480011800010483768400121600105020648001180001052036840012160010538575600118000105567756001216001057497560011800010593175600121600106113756001180001062957560012160010647775600118000106659756001216001068417560011800010702375600121600107205756001180001073877560012160010757675600118000107940792001144001080527920011800010812275600121600108304756001180001084867560012160010866875600118000108850756001216001090327560011440010921479200118000109396792001144001095857920011800010979579200114400109949792001180001101597920011440011031379200118000110523792001144001106777920011800011089479200114400111041792001180001112587920011440011140579200118000111622792001144001117767920011800011198679200114400112140792001180001123507920011440011250479200118000">>,
       <<13720, "083319726801144000855607200011800010410768400121600104655648001180001048376840012160010502064800118000105203684001216001053857560011800010556775600121600105749756001180001059317560012160010611375600118000106295756001216001064777560011800010665975600121600106841756001180001070237560012160010720575600118000107387756001216001075767560011800010794079200114400108052792001180001081227560012160010830475600118000108486756001216001086687560011800010885075600121600109032756001180001092147560012160010939675600118000109585756001216001097957560011800010994975600121600110159756001180001103137560012160011052375600118000110677756001216001108947560011800011104175600121600111258756001180001114057560012160011162275600118000111776756001216001119867560011800011214075600121600112350756001180001125047560012160011272175600118000">>,
       <<14012, "083319723881144000855607200011800010410768400121600104290648001180001044726840012160010465564800118000104837684001216001050206480011800010520368400121600105385756001180001055677560012160010574975600118000105931756001216001061137560011800010629575600121600106477756001180001066597560012160010684175600118000107023756001216001072057560011800010738775600121600107576756001180001079407920011440010805279200118000">>,
       <<12464, "08331973936110800085560756001180001042906840012160010465564800118000104837684001216001050206480011800010520368400121600105385756001180001055677560012160010574975600118000105931756001216001061137560011800010629575600121600106477756001180001066597560012160010684175600118000107023756001216001072057560011800010738775600121600107576756001180001079407920011440010805279200118000108122756001216001083047560011800010848675600121600108668756001180001088507560012160010903275600118000109214756001216001093967560011800010958575600121600109795756001180001099497560012160011015975600118000110313756001216001105237560011800011089479200114400111041792001180001112587920011440011140579200118000111622792001144001117767920011800011198679200114400112140792001180001123507920011440011250479200118000">>,
       <<10660, "070780757401106560810067574411080010450275600114400104655720001108001048367560011440010502072000110800105203756001144001053867200011080010556875600114400105749792001108001059317920011440010611379200110800106295792001144001064777920011080010665979200114400106841792001108001070237920011440010720579200110800107387792001144001075767920011080010776000000114400107943000001108001081260000011440010830900000110800108491000001144001086740000011080010885600000114400109039000001108001092210000011440010940400000110800109587000001144001097700000011080010995200000114400110135000001108001103170000011440011050000000110800110682000001144001108650000011080011104800000114400111231000001108001114130000011440011159600000110800111778000001144001119610000011080011214300000114400112326000001108001125090000011440011269200000110800112874000001144001130570000011080011323900000114400113422000001108001136040000011440011378700000110800">>,
       <<12140, "089607742601126000905027380011440010088172000110800">>,
       <<11964, "08331974436110800095310756001144001041077200011800010429068400114400104472720001180001046556840011440010483772000118000105020684001144001052037200011800010538579200114400105567792001180001057497920011440010593179200118000106113792001144001062957920011800010647779200114400106659792001180001068417920011440010702379200118000107205792001144001073877920011800010757679200114400107940828001108001081228280011440010958603600118000109796036001144001099500000011800011016000000114400110314000001180001105240000011440011067800000118000110895000001144001110420000011800011125900000114400111406000001180001116230000011440011177700000118000111987000001144001121410000011800011235100000114400112505000001180001127220000011440011286900000118000113086000001144001132330000011800011345000000114400113597000001180001138140000011440011396800000118000114178000001144001143320000011800011454200000114400114696000001180001149130000011440011506000000118000115277000001144001154240000011800011564100000114400115795000001180001160050000011440011615900000118000116369000001144001165230000011800011673300000114400">>,
       <<24124, "08182762276125200">>,
       <<20100, "081714663001216000855606480012520010410761200128800104290576001252001044726120012880010465557600125200104837612001288001050205760012520010520361200128800105385684001252001055676840012880010574968400125200105931684001288001061136840012520010629568400128800106477684001252001066596840012880010684168400125200107023684001288001072056840012520010738768400128800107576684001252001079407200012160010805272000125200108122684001288001083046840012520010848668400128800108668684001252001088506840012880010903268400125200109214684001288001092775760012520010939672000121600109585720001252001097957200012160010994972000125200110159720001216001103137200012520011052372000121600110677720001252001108947200012160011104172000125200111258720001216001114057200012520011162272000121600111776720001252001119867200012160011214072000125200112350720001216001125047200012520011272172000121600112868720001252001130857200012160011323272000125200113449720001216001135967200012520011381372000121600113967720001252001141777200012160011433172000125200114541720001216001146957200012520011491272000121600115059720001252001163686840012160011688672000125200">>,
       <<8520, "06712777880107200081823792001108000820347560010720008219479200110800082377756001072000825517920011080008274775600107200082943792001108000830907560010720009537179200110800095524756001072000957367920011080009588975600107200096101792001108000962547560010720009646779200110800096620756001072000968327920011080009698575600107200100902792001108001010037560010720010121579200110800101368756001072001015807920011080010173375600107200101945792001108001020987560010720010231179200110800102464756001072001026767920011080010282975600107200103040792001108001031937560010720010523379200110800105401756001072001055987920011080010576675600107200105963792001108001061317560010720010632879200110800106496756001072001067257920011080010686275600107200107068792001108001072277560010720010742479200110800107592756001072001077897920011080010795775600107200108155792001108001083117560010720010848679200110800108668756001072001088507920011080010903275600107200109214792001108001093967560010720010958579200110800109767756001072001099497920011080011013175600107200110313792001108001104957560010720011067779200110800110894756001072001110417920011080011125875600107200111405792001108001116227560010720011177679200110800111986756001072001121407920011080011235075600107200112504792001108001127217560010720011286879200110800113085756001072001132327920011080011344975600107200113596792001108001138137560010720011396779200110800114177756001072001143317920011080011454175600107200114695792001108001149127560010720011505979200110800115276756001072001154237920011080011564075600107200115794792001108001160047560010720011615879200110800116368756001072001165227920011080011673275600107200116886792001108001171037560010720011725079200110800117467756001072001176147920011080011783175600107200117985792001108001181957560010720011834979200110800118559756001072001187137920011080011893075600107200119077792001108001192947560010720011944179200110800119658756001072001198127920011080012002275600107200120176792001108001203867560010720012054079200110800120750756001072001209047920011080012112175600107200121268792001108001214857560010720012163279200110800121849756001072001220037920011080012221375600107200122367792001108001225777560010720012273179200110800122948756001072001230957920011080012331275600107200123459792001108001236767560010720012382379200110800124040756001072001241947920011080012440475600107200124558792001108001247687560010720012492279200110800125139756001072001252867920011080012550375600107200125650792001108001258677560010720012602179200110800126231756001072001263857920011080012659575600107200126749792001108001269597560010720012711379200110800127330756001072001274777920011080012769475600107200127841792001108001280587560010720012821279200110800128422756001072001285767920011080012878675600107200128940792001108001291577560010720012930479200110800129521756001072001296687920011080012988575600107200130039792001108001302497560010720013040379200110800130613756001072001307677920011080013097775600107200131131792001108001313487560010720013149579200110800131712756001072001318597920011080013207675600107200132230792001108001324407560010720013259479200110800132804756001072001329587920011080013317575600107200133322792001108001335397560010720013368679200110800133903756001072001340507920011080013426775600107200134421792001108001346317560010720013478579200110800134995756001072001351497920011080013536675600107200135513792001108001357307560010720013587779200110800136094756001072001362487920011080013645875600107200136612792001108001368227560010720013697679200110800137186756001072001373407920011080013755775600107200137704792001108001379217560010720013806879200110800138285756001072001384397920011080013864975600107200138803792001108001390137560010720013916779200110800139384756001072001395317920011080013974875600107200139895792001108001401127560010720014026679200110800140476756001072001406307920011080014084075600107200140994792001108001412047560010720014135879200110800141575756001072001417227920011080014193975600107200142086792001108001423037560010720014245779200110800142667756001072001428217920011080014303175600107200143185792001108001434027560010720014354979200110800143766756001072001439137920011080014413075600107200144277792001108001444947560010720014464879200110800144858756001072001450127920011080014522275600107200145376792001108001455937560010720014574079200110800145957756001072001461047920011080014632175600107200146475792001108001466857560010720014683979200110800147049756001072001472037920011080014741375600107200">>,
       <<17904, "0833196849611800008556068400121600104107648001252001042906120012160010447264800125200104655612001216001048376480012520010502061200121600105203648001252001053857200012160010556772000125200105749720001216001059317200012520010611372000121600106295720001252001064777200012160010665972000125200106841720001216001070237200012520010720572000121600107387720001252001075767200012160010791172000118000108136684001216001083046480011800010850068400121600108668648001180001088646840012160010903264800118000109228684001216001093966480011800010959268400121600109767648001180001099497740012160011015973800118000110313774001216001105237380011800011067777400121600110894738001180001110417740012160011125873800118000111405774001216001116227380011800011177677400121600111986738001180001121407740012160011235073800118000112504774001216001127217380011800011286877400121600">>,
       <<27580, "0839875882012700008648559400128800">>,
       <<21208, "05780965192121200063475652001192700766236713011980008968066600123400089906630001198000900156660012340009115563000119800">>,
       <<27232, "0817195916812880008556057600132400104107540001360001042905040013240010447254000136000104655504001324001048375400013600010502050400132400105203540001360001053856120013240010556761200136000105749612001324001059316120013600010611361200132400106295612001360001064776120013240010665961200136000106841612001324001070236120013600010720561200132400107387612001360001075766120013240010794064800128800108052648001324001081226120013600010830461200132400108486612001360001086686120013240010885061200136000109032612001324001092146120013600010939661200132400109585612001360001097956120013240010994961200136000110159612001324001103136120013600011052361200132400110677612001360001108946120013240011104161200136000111258612001324001114056120013600011162261200132400111776612001360001119866120013240011214061200136000112350612001324001125046120013600011272161200132400112868612001360001130856120013240011323261200136000113449612001324001135966120013600011381361200132400113967612001360001141776120013240011433161200136000114541612001324001146956120013600011491261200132400115059612001360001163685760012880011688664800132400">>,
       <<27480, "076470589201252001029216120012880010483757600136000105020504001324001052035400013600010538550400132400105567540001360001057495040013240010593154000136000106113504001324001062955400013600010647750400132400106659540001360001068415040013240010702354000136000107205504001324001073875400013600010757650400132400107758540001360001079405040013240010812254000136000108304504001324001084865400013600010866850400132400108850540001360001090325040013240010921454000136000109396504001324001095855400013600010976750400132400109949540001360001101315040013240011031354000136000110495504001324001114396120013600011159357600132400111775612001360001119575760013240011213961200136000112321576001324001125036120013600011268557600132400112867612001360001130495760013240011323161200136000113420576001324001139685400012880011652164800132400116703540001288001168856480013240011706754000128800">>,
       <<29143, "0747975725712880008147357600132400081644540001288000891935760013240008932754000128800089480576001324000897125400012880008980257600132400091112540001288000913675760013240009150654000128800091702576001324000919025400012880009208457600132400092237540001288000924495760013240009247654000128800105966648001324001060996120012880010630964800132400106463612001288001066806480013240010682761200128800107044648001324001071986120012880010740864800132400107562612001288001077726480013240010792661200128800">>,
       <<19164, "0671276723611917207662367228119800089776666001216000900156480012340009115670200119800109640666001234001097946480012160011325266600119800">>,
       <<21700, "07078064700121200089680652001234000899066300011980009001566600123400093331630001216001144146120012520011460961200121600">>,
       <<8712, "081736776881072000818450000011080008201282800107200082209000001108000823768280010720008257300000110800082740828001072000829370000011080008311182800107200097196000001108000973508280010720009756300000110800097714828001072000979290000011080009808182800107200098294000001108000984458280010720009865200000110800098811828001072000990240000011080009917682800107200099390000001108000995428280010720009975500000110800099907828001072001001200000011080010027282800107200100485000001108001006378280010720010085100000110800101003828001072001012160000011080010136882800107200101581000001108001017338280010720010194600000110800102098828001072001023120000011080010246482800107200102677000001108001027998280010720010304200000110800103164828001072001048460000011080010502082800107200105212000001108001053868280010720010589000000110800106124828001072001062680000011080010651182800107200106648000001108001068778280010720010702900000110800107212828001072001073950000011080010757682800107200107759792001108001079427560010720010813279200110800108308756001072001084847920011080010866775600107200108855792001108001090387560010720010922079200110800109403756001072001095867920011080010976975600107200109950792001108001101347560010720011031479200110800110499756001072001106817920011080011086475600107200111047792001108001112307560010720011141279200110800111595756001072001117777920011080011196075600107200112142792001108001123257560010720011250879200110800112691756001072001128737920011080011305675600107200113238792001108001134127560010720011360179200110800113818756001072001139727920011080011418375600107200114329792001108001145467560010720011470079200110800114910756001072001150647920011080011527475600107200115428792001108001156387560010720011579279200110800116002756001072001161567920011080011637375600107200116520792001108001167377560010720011688479200110800117101756001072001172557920011080011746575600107200117619792001108001178297560010720011798379200110800118193756001072001183477920011080011856475600107200118711792001108001189287560010720011907579200110800">>,
       <<30140, "07881456260128800089824540001324001023135400012880011121657600132400">>,
       <<13272, "08173673128114400">>,
       <<16512, "0833196988811800008556068400121600104107648001252001042906120012160010447264800125200104655612001216001048376480012520010502061200121600105203648001252001053857200012160010556772000125200105749720001216001059317200012520010611372000121600106295720001252001064777200012160010665972000125200106841720001216001070237200012520010720572000121600107387720001252001075767200012160010792075600118000">>,
       <<8148, "082419782521072001019277920011080010210975600107200102325792001108001024747560010720010264879200110800102823756001072001030127920011080010319575600107200103376792001108001035587560010720010374779200110800103922756001072001041047920011080010428675600107200104468792001108001046507560010720010483279200110800105014756001072001051967920011080010538575600107200105567792001108001057497560010720010593179200110800106113756001072001062957920011080010647775600107200106659792001108001068417560010720010702379200110800107205756001072001073877920011080010757675600107200107758792001108001079407560010720010812279200110800108304756001072001084867920011080010866875600107200108850792001108001090327560010720010921479200110800109396756001072001095857920011080010976775600107200109949792001108001101317560010720011031379200110800110524036001072001106780360011080011089503600107200111042036001108001112590360010720011140603600110800111623036001072001117770360011080011198703600107200112141036001108001123510360010720011250503600110800112722036001072001128690360011080011308603600107200113233036001108001134500360010720011359703600110800113814036001072001139680360011080011417803600107200114332036001108001145420360010720011469603600110800114913036001072001150600360011080011527703600107200115424036001108001156410360010720011579503600110800116005036001072001161590360011080011636903600107200116523036001108001167330360010720011688703600110800117468036001072001176150360011080011783203600107200117986036001108001181960360010720011835003600110800118560036001072001187140360011080011893103600107200119078036001108001192950360010720011944203600110800119659036001072001198130360011080012002303600107200120177036001108001203870360010720012054103600110800120751036001072001209050360011080012112203600107200121269036001108001214860360010720012163303600110800121850036001072001220040360011080012221403600107200122368036001108001225780360010720012273203600110800122949036001072001230960360011080012331303600107200123460036001108001236770360010720012382403600110800124041036001072001241950360011080012440503600107200124559036001108001247690360010720012492303600110800125140036001072001252870360011080012550403600107200125651036001108001258680360010720012602203600110800126232036001072001263860360011080012659603600107200126750036001108001269600360010720012711403600110800127331036001072001274780360011080012769503600107200127842036001108001280590360010720012821303600110800128423036001072001285770360011080012878703600107200128941036001108001291580360010720012930503600110800129522036001072001296690360011080012988603600107200130040036001108001302500360010720013040403600110800130614036001072001307680360011080013097803600107200131132036001108001313490360010720013149603600110800131713036001072001318600360011080013207703600107200132231036001108001324410360010720013259503600110800132805036001072001329590360011080013317603600107200133323036001108001335400360010720013368703600110800133904036001072001340510360011080013426803600107200134422036001108001346320360010720013478603600110800134996036001072001351500360011080013536703600107200135514036001108001357310360010720013587803600110800136095036001072001362490360011080013645903600107200136613036001108001368230360010720013697703600110800137187036001072001373410360011080013755803600107200137705036001108001379220360010720013806903600110800138286036001072001384400360011080013865003600107200138804036001108001390140360010720013916803600110800139385036001072001395320360011080013974903600107200139896036001108001401130360010720014026703600110800140477036001072001406310360011080014084103600107200140995036001108001412050360010720014135903600110800141576036001072001417230360011080014194003600107200142087036001108001423040360010720014245803600110800142668036001072001428220360011080014303203600107200143186036001108001434030360010720014355003600110800143767036001072001439140360011080014413103600107200144278036001108001444950360010720014464903600110800144859036001072001450130360011080014522303600107200145377036001108001455940360010720014574103600110800145958036001072001461050360011080014632203600107200146476036001108001466860360010720014684003600110800147050036001072001472040360011080014741403600107200">>,
       <<8272, "0747057812810720008919400000110800089316000001072000893630000011080009007700000107200090228000001108000904420000010720009059400000110800090808000001072000909740000011080009117300000107200091339000001108000915380000010720009538079200110800095524756001072000957367920011080009588975600107200096101828001108000962540000010720009646782800110800096620000001072000968328280011080009698500000107200097197828001108000973500000010720009756282800110800097715000001072000979288280011080009808100000107200098293828001108000984460000010720009865882800110800098812000001072000990238280011080009905875600107200101647792001108001017457560010720010193479200110800102067756001072001038667920011080010390879200107200105238792001108001053507920010720010558179200110800105721756001072001059807920011080010609275600107200106312792001108001064637560010720010667379200110800106820756001072001070587920011080010718475600107200107387792001108001075417560010720010775179200110800107912756001072001081227920011080010828375600107200108491792001108001086477560010720010885579200110800109004756001072001092197920011080010937575600107200109590792001108001097587920010720010995479200110800110122792001072001103187920011080011048679200107200110696792001108001108787560010720011106779200110800111249756001072001114317920011080011161375600107200111795792001108001119777560010720011215979200110800112341756001072001125237920011080011269179200107200112887792001108001130598280010720011323879200110800113412756001072001136037920011080011376882800107200113965792001108001141197560010720011432979200110800114490792001072001146947926011080011483175600107200115064792601108001151867560010720011542879200110800115603792001072001157927920011080011597475600107200116156792001108001163667560010720011652179200110800116730792001072001168858280011080011710279200107200117249828001108001174667920010720011761382800110800117830792001072001179837920011080011819475600107200118348792001108001185587920010720011871279200110800118928792001072001190777920011080011929382800107200119476000001108001196578280010720011982600000110800120021828001072001201830000011080012038582800107200120540000001108001207498280010720012090400000110800121120828001072001212680000011080012148482800107200121632000001108001218488280010720012200300000110800122212828001072001223670000011080012257682800107200122731000001108001229478280010720012309500000110800123311828001072001234590000011080012367582800107200123823000001108001240398280010720012419400000110800124396828001072001245580000011080012475382800107200124922000001108001251038280010720012528600000110800125460828001072001254960000011080012550282800107200125650000001108001258108280010720012585300000110800125866828001072001260210000011080012616782800107200126203000001108001262308280010720012638500000110800126524828001072001265600000011080012659482800107200126749000001108001268748280010720012691700000110800126958828001072001271130000011080012723182800107200127267000001108001273298280010720012747700000110800127588828001072001276240000011080012769382800107200127841000001108001279388280010720012798100000110800128057828001072001282120000011080012829582800107200128331000001108001284218280010720012857600000110800128645828001072001286880000011080012878582800107200128940000001108001290028280010720012903800000110800129156828001072001293040000011080012935982800107200129395000001108001295208280010720012966800000110800129709828001072001297520000011080012988482800107200130039000001108001300668280010720013010200000110800130248828001072001304030000011080013041682800107200130459000001108001306128280010720013076700000110800130773828001072001308160000011080013097682800107200131166000001108001313478280010720013152300000110800131711828001072001318730000011080013207582800107200132230000001108001324398280010720013259400000110800132803828001072001329580000011080013317482800107200133322000001108001335388280010720013368600000110800133902828001072001340500000011080013426682800107200134421000001108001346308280010720013478500000110800134994828001072001351490000011080013536582800107200135513000001108001357298280010720013587700000110800136086828001072001362480000011080013644382800107200136612000001108001368008280010720013697600000110800137150828001072001373400000011080013750782800107200137543000001108001378648280010720013790000000110800138214828001072001382570000011080013857182800107200138607000001108001386488280010720013880300000110800138921828001072001389640000011080013901282800107200139167000001108001392788280010720013932100000110800139383828001072001395310000011080013963582800107200139671000001108001397478280010720013989500000110800139985828001072001400280000011080014011182800107200140266000001108001403428280010720014037800000110800140475828001072001406300000011080014069982800107200140735000001108001408398280010720014099400000110800141049828001072001410920000011080014120382800107200141358000001108001414068280010720014144200000110800141574828001072001417220000011080014175682800107200141799000001108001419388280010720014208600000110800142113828001072001421560000011080014230282800107200142457000001108001424708280010720014250600000110800142666828001072001428210000011080014303082800107200143185000001108001434018280010720014354900000110800143765828001072001439130000011080014412982800107200144277000001108001444938280010720014464800000110800144857828001072001450120000011080014522182800107200145376000001108001455928280010720014574000000110800145956828001072001461040000011080014632082800107200146475000001108001466848280010720014683900000110800147048828001072001472030000011080014741282800107200">>,
       <<8423, "07470577977107200089194000001108000893160000010720008936300000110800090077000001072000902280000011080009044200000107200090594000001108000908080000010720009097400000110800091173000001072000913390000011080009153800000107200095380792001108000955247560010720009573679200110800095889756001072000961018280011080009625400000107200096467828001108000966200000010720009683282800110800096985000001072000971978280011080009735000000107200097562828001108000977150000010720009792882800110800098081000001072000982938280011080009844600000107200098658828001108000988120000010720009902382800110800099058756001072001016477920011080010174575600107200101934792001108001020677560010720010386679200110800103908792001072001052387920011080010535079200107200105581792001108001057217560010720010598079200110800106092756001072001063127920011080010646375600107200106673792001108001068207560010720010705879200110800107184756001072001073877920011080010754175600107200107751792001108001079127560010720010812279200110800108283756001072001084917920011080010864775600107200108855792001108001090047560010720010921979200110800109375756001072001095907920011080010975879200107200109954792001108001101227920010720011031879200110800110486792001072001106967920011080011087875600107200111067792001108001112497560010720011143179200110800111613756001072001117957920011080011197775600107200112159792001108001123417560010720011252379200110800112691792001072001128877920011080011305982800107200113238792001108001134127560010720011360379200110800113768828001072001139657920011080011412275600107200114329792001108001144907920010720011469379200110800114831756001072001150647926011080011518675600107200115215792001108001152467560010720011542879200110800115603792001072001157927920011080011597475600107200116156792001108001163667560010720011652179200110800116730792001072001168858280011080011710279200107200117249828001108001174667920010720011761382800110800117830792001072001179837920011080011819475600107200118348792001108001185587920010720011871279200110800118928792001072001190777920011080011929382800107200119476000001108001196578280010720011982600000110800120021828001072001201830000011080012038582800107200120540000001108001207498280010720012090400000110800121120828001072001212680000011080012148482800107200121632000001108001218488280010720012200300000110800122212828001072001223670000011080012257682800107200122731000001108001229478280010720012309500000110800123311828001072001234590000011080012367582800107200123823000001108001240398280010720012419400000110800124396828001072001245580000011080012475382800107200124922000001108001251038280010720012528600000110800125460828001072001254960000011080012550282800107200125650000001108001258108280010720012585300000110800125866828001072001260210000011080012616782800107200126203000001108001262308280010720012638500000110800126524828001072001265600000011080012659482800107200126749000001108001268748280010720012691700000110800126958828001072001271130000011080012723182800107200127267000001108001273298280010720012747700000110800127588828001072001276240000011080012769382800107200127841000001108001279388280010720012798100000110800128057828001072001282120000011080012829582800107200128331000001108001284218280010720012857600000110800128645828001072001286880000011080012878582800107200128940000001108001290028280010720012903800000110800129156828001072001293040000011080012935982800107200129395000001108001295208280010720012966800000110800129709828001072001297520000011080012988482800107200130039000001108001300668280010720013010200000110800130248828001072001304030000011080013041682800107200130459000001108001306128280010720013076700000110800130773828001072001308160000011080013097682800107200131166000001108001313478280010720013152300000110800131711828001072001318730000011080013207582800107200132230000001108001324398280010720013259400000110800132803828001072001329580000011080013317482800107200133322000001108001335388280010720013368600000110800133902828001072001340500000011080013426682800107200134421000001108001346308280010720013478500000110800134994828001072001351490000011080013536582800107200135513000001108001357298280010720013587700000110800136086828001072001362480000011080013644382800107200136612000001108001368008280010720013697600000110800137150828001072001373400000011080013750782800107200137543000001108001378648280010720013790000000110800138214828001072001382570000011080013857182800107200138607000001108001386488280010720013880300000110800138921828001072001389640000011080013901282800107200139167000001108001392788280010720013932100000110800139383828001072001395310000011080013963582800107200139671000001108001397478280010720013989500000110800139985828001072001400280000011080014011182800107200140266000001108001403428280010720014037800000110800140475828001072001406300000011080014069982800107200140735000001108001408398280010720014099400000110800141049828001072001410920000011080014120382800107200141358000001108001414068280010720014144200000110800141574828001072001417220000011080014175682800107200141799000001108001419388280010720014208600000110800142113828001072001421560000011080014230282800107200142457000001108001424708280010720014250600000110800142666828001072001428210000011080014303082800107200143185000001108001434018280010720014354900000110800143765828001072001439130000011080014412982800107200144277000001108001444938280010720014464800000110800144857828001072001450120000011080014522182800107200145376000001108001455928280010720014574000000110800145956828001072001461040000011080014632082800107200146475000001108001466848280010720014683900000110800147048828001072001472030000011080014741282800107200">>,
       <<25590, "0785696081012520009013757600128800090941540001324000911125400012520009168861200128800094701576001252000963465760012880010198857600125200">>,
       <<27402, "076195612001288000895726840013240008968068400130600089765558001324000911896120012880009134357600132400091567702001288000917007020013240009193170200128800092085702001324000922677020012880009242170200132400092631702001288000927857020013240009299570200128800093149702001324000933597020012880009352070200132400093730702001288000938847020013240009409466600128800094234702001324000944586660012880009459870200132400094829666001288000949627020013240009519366600128800095333702001324000955576660012880009569770200132400095921666001288000960617020013240009628566600128800096425702001324000966566660012880009678970200132400097020666001288000971537020013240009738466600128800097524702001324000977486660012880009788870200132400098112666001288000982807020013240009846266600128800098644702001324000988266660012880009900870200132400099197666001288000993797020013240009956166600128800099743702001324000999256660012880010010770200132400100289666001288001004717020013240010065366600128800100835702001324001010246660012880010120670200132400101388666001288001014587020013240010175266600128800101934702001324001021166660012880010229870200132400102480666001288001034187020013240010357966600128800">>,
       <<21996, "0764706440412160010292164800125200104837612001288001050205760012520010520361200128800105385576001252001055676120012880010574957600125200105931612001288001061135760012520010629561200128800106477576001252001066596120012880010684157600125200107023612001288001072055760012520010738761200128800107576576001252001077586120012880010794057600125200108122612001288001083045760012520010848661200128800108668576001252001088506120012880010903257600125200109214612001288001093965760012520010958561200128800109767576001252001099496120012880011013157600125200110313612001288001104955760012520011143968400128800111593648001252001117756840012880011195764800125200112139684001288001123216480012520011250368400128800112685648001252001128676840012880011304964800125200113231684001288001134206480012520011652168400128800116703576001252001168856840012880011706757600125200">>,
       <<25025, "08176061375125200085560612001288001041075760013240010429054000128800104472576001324001046555400012880010483757600132400105020540001288001052035760013240010538564800128800105567648001324001057496480012880010593164800132400106113648001288001062956480013240010647764800128800106659648001324001068416480012880010702364800132400107205648001288001073876480013240010757664800128800107940684001252001080526840012880010812264800132400108304648001288001084866480013240010866864800128800108850648001324001090326480012880010921464800132400109396648001288001095856480013240010979564800128800109949648001324001101596480012880011031364800132400110523648001288001106776480013240011089464800128800111041648001324001112586480012880011140564800132400111622648001288001117766480013240011198664800128800112140648001324001123506480012880011250464800132400112721648001288001128686480013240011308564800128800113232648001324001134496480012880011359664800132400113813648001288001139676480013240011417764800128800114331648001324001145416480012880011469564800132400114912648001288001150596480013240011636861200128800">>,
       <<6952, "0671277944810701607835779384107200080396792001108000805497560010720008182379200110800082034756001072000821947920011080008237775600107200082551792001108000827477560010720008333079200110800083471756001072000836837920011080008383675600107200089223792001108000893207560010720008937679200110800089670756001072000898627920011080009114875600107200091384792001108000915067560010720009170779200110800091875756001072000920717920011080009223975600107200092428792001108000926037560010720009279979200110800092974756001072000931707920011080009333875600107200097272792001108000977447560010720009794279200110800098081756001072001012488280011080010140282800107200101550000001108001017668280010720010190600000110800102130828001072001022710000011080010249482800107200102649000001108001028448280010720010301300000110800104958828001144001050217920011080010541782800107200105587828001108001057488280010720010593182800110800106113828001072001062958280011080010647782800107200106659828001108001068418280010720010702382800110800107205828001072001073878280011080010757682800107200107758828001108001079408280010720010812282800110800108304828001072001084868280011080010866882800107200108843828001108001090328280010720010921482800110800109396828001072001095858280011080010979582800107200109949828001108001101598280010720011031382800110800110523828001072001106778280011080011089482800107200111041828001108001112588280010720011140582800110800111622828001072001117768280011080011198682800107200112140828001108001123508280010720011250482800110800112721828001072001128688280011080011308582800107200113232828001108001134498280010720011359703600110800113814036001072001139680360011080011417803600107200114332036001108001145420360010720011469603600110800114913036001072001150610360011080011527703600107200115424036001108001156410360010720011579503600110800116005036001072001161600360011080011636903600107200116523036001108001167470360010720011688703600110800">>,
       <<25632, "08319760000126400086424600001270000898535940013240009113354000127000092084594001288000928145760012700009780759400125200">>,
       <<33768, "086424526321324000907465400013420009780752200132400">>,
       <<8454, "067127779461084400810067796010720008919400000110800089316000001072000893630000011080009007700000107200090228000001108000904420000010720009059400000110800090808000001072000909740000011080009117300000107200091339000001108000915380000010720009210700000114400092208000001108000922690000010720009245000000110800092634000001072000928000000011080009295200000107200093150000001108000933740000010720009353500000110800093717000001072000938920000011080009404600000107200094319000001108000944100000010720009468300000110800094774000001072000950400000011080009515900000107200095369000001108000955160000010720010164779200110800101745756001072001019347920011080010206775600107200103866792001108001039087920010720010523879200110800105350792001072001055817920011080010572175600107200105980792001108001060927560010720010631279200110800106463756001072001066737920011080010682075600107200107058792001108001071847560010720010738779200110800107541756001072001077517920011080010791275600107200108122792001108001082837560010720010849179200110800108647756001072001088557920011080010900475600107200109219792001108001093757560010720010956979200110800109754756001072001099407920011080011011775600107200110304792001108001104747560010720011068300000110800110836828001072001110610000011080011123579200107200111420828001108001115887920010720011177482800110800111966792001072001121388280011080011232779200107200112514828001108001126827920010720011287400000110800113064828001072001132380000011080011342182800107200113602000001108001137718280010720011396600000110800114156828001072001143300000011080011451382800107200114694000001108001148638280010720011506500000110800115248828001072001154290000011080011560582800107200115793000001108001160048280010720011615700000110800116368828001072001165210000011080011673282800107200116885000001108001171038280010720011724900000110800117467828001072001176130000011080011783182800107200117984000001108001181958280010720011834800000110800118559828001072001187120000011080011893082800107200119076000001108001192948280010720011944000000110800119658828001072001198110000011080012002282800107200120175000001108001203868280010720012053900000110800120750828001072001209030000011080012112182800107200121267000001108001214858280010720012163100000110800121849828001072001220020000011080012221382800107200122366000001108001225778280010720012273000000110800122948828001072001230940000011080012331282800107200123458000001108001236768280010720012382200000110800124040828001072001241930000011080012440482800107200124557000001108001247688280010720012492100000110800125139828001072001252850000011080012550382800107200125649000001108001258678280010720012602000000110800126231828001072001263840000011080012659582800107200126748000001108001269598280010720012711200000110800127330828001072001274760000011080012769482800107200127840000001108001280588280010720012821100000110800128422828001072001285750000011080012878682800107200128939000001108001291578280010720012930300000110800129521828001072001296670000011080012988582800107200130038000001108001302498280010720013040200000110800130613828001072001307660000011080013097782800107200131130000001108001313488280010720013149400000110800131712828001072001318580000011080013207682800107200132229000001108001324408280010720013259300000110800132804828001072001329570000011080013317582800107200133321000001108001335398280010720013368500000110800133903828001072001340490000011080013426782800107200134420000001108001346318280010720013478400000110800134995828001072001351480000011080013536682800107200135512000001108001357308280010720013587600000110800136094828001072001362470000011080013645882800107200136611000001108001368228280010720013697500000110800137186828001072001373390000011080013755782800107200137703000001108001379218280010720013806700000110800138285828001072001384380000011080013864982800107200138802000001108001390138280010720013916600000110800139384828001072001395300000011080013974882800107200139894000001108001401128280010720014026500000110800140476828001072001406290000011080014084082800107200140993000001108001412048280010720014135700000110800141575828001072001417210000011080014193982800107200142085000001108001423038280010720014245600000110800142667828001072001428200000011080014303182800107200143184000001108001434028280010720014354800000110800143766828001072001439120000011080014413082800107200144276000001108001444948280010720014464700000110800144858828001072001450110000011080014522282800107200145375000001108001455938280010720014573900000110800145957828001072001461030000011080014632182800107200146474000001108001466858280010720014683800000110800147049828001072001472020000011080014741382800107200">>,
       <<16608, "0707806979211440009086872000116200">>,
       <<38076, "0827804832413960008556046800143200104107432001468001042903960014320010447243200146800104655396001432001048374320014680010502039600143200105203432001468001053855040014320010556750400146800105749504001432001059315040014680010611350400143200106295504001468001064775040014320010665950400146800106841504001432001070235040014680010720550400143200107387504001468001075765040014320010794054000139600108052540001432001081225040014680010830450400143200108486504001468001086685040014320010885050400146800109032504001432001092145040014680010939650400143200109585504001468001097955040014320010994950400146800110159504001432001103135040014680011052350400143200110677504001468001108945040014320011104150400146800111258504001432001114055040014680011162250400143200111776504001468001119865040014320011214050400146800112350504001432001125045040014680011272150400143200112868504001468001130855040014320011323250400146800113449504001432001135965040014680011381350400143200113967504001468001141775040014320011433150400146800114541504001432001149125400013960011505954000143200">>,
       <<16092, "07698870308119800090015666001234000911556300011980009333166600118000111783684001216001119656480011800011403068400121600114183648001180001143486840012160011454864800118000">>,
       <<21020, "08465865380121600">>,
       <<20476, "0817366592411980010584366600120700">>,
       <<32533, "081719538671288000855605760013240010410754000136000104290504001324001044725400013600010465550400132400104837540001360001050205040013240010520354000136000105385612001324001055676120013600010574961200132400105931612001360001061136120013240010629561200136000106477612001324001066596120013600010684161200132400107023612001360001072056120013240010738761200136000107576612001324001079406480012880010805264800132400108122612001360001083046120013240010848661200136000108668612001324001088506120013600010903261200132400109214612001360001093966120013240010958561200136000109795612001324001099496120013600011015961200132400110313612001360001105236120013240011067761200136000110894612001324001110416120013600011125861200132400111405612001360001116226120013240011177661200136000111986612001324001121406120013600011235061200132400112417540001360001125045760013960011272157600136000112868576001396001130855760013600011323257600139600113449576001360001135965760013960011381357600136000113967576001396001141775760013600011433157600139600114541576001360001146955760013960011491257600136000115059576001396001152294680013600011636857600132400">>,
       <<22286, "08174164114121600085560648001252001041076120012880010429057600125200104472612001288001046555760012520010483761200128800105020576001252001052036120012880010538568400125200105567684001288001057496840012520010593168400128800106113684001252001062956840012880010647768400125200106659684001288001068416840012520010702368400128800107205684001252001073876840012880010757668400125200107940720001216001080527200012520010812268400128800108304684001252001084866840012880010866868400125200108850684001288001090326840012520010921468400128800109396684001252001095856840012880010979568400125200109949684001288001101596840012520011031368400128800110523684001252001106776840012880011089468400125200111041684001288001112586840012520011140568400128800111622684001252001117766840012880011198668400125200112140684001288001123506840012520011250468400128800112721684001252001128686840012880011308568400125200113232684001288001134496840012520011359668400128800113813684001252001139676840012880011417768400125200114331684001288001145416840012520011469568400128800114912684001252001150596840012880011636864800125200">>,
       <<24406, "07479761994124925076409614751252000864856120012640008965060000127000089818594001324000911225400012700010438257600128800">>,
       <<26480, "083987599201270000864855940012880008747157600130000087562564001288000878375760013000008792856400128800088202576001300000882935640012880008856757600130000088658564001288000889325760013000008902356400128800089298576001300000893895640012880008966357600130000089754564001288000898185760013240009112254000128800">>,
       <<11516, "09269474884110800">>,
       <<27250, "0761955915012880008976254000132400089892504001360000900934680013240009025750400136000090410468001324000911415400012880009135354000132400091506540001288000917075400013240009193254000128800092086540001324000922685400012880009242154000132400092631540001288000927855400013240009299554000128800093149540001324000933605400012880009352054000132400093730540001288000938845400013240009409454000128800094234540001324000944585400012880009459854000132400094829540001288000949625400013240009519366600128800095333702001324000955576660012880009569770200132400095921666001288000960617020013240009628566600128800096425702001324000966566660012880009678970200132400097020666001288000971537020013240009738466600128800097524702001324000977486660012880009788870200132400098112666001288000982807020013240009846263000128800098644702001324000988266300012880009900870200132400099197666001288000993797020013240009956166600128800099743702001324000999256660012880010010770200132400100289666001288001004717020013240010065366600128800100835702001324001010246660012880010120670200132400101388666001288001014587020013240010175266600128800101934702001324001021166660012880010229870200132400102480666001288001034187020013240010357966600128800">>,
       <<36192, "0833195020813600008556050400139600104107468001432001042904320013960010447246800143200104655432001396001048374680014320010502043200139600105203468001432001053855400013960010556754000143200105749540001396001059315400014320010611354000139600106295540001432001064775400013960010665954000143200106841540001396001070235400014320010720554000139600107387540001432001075765400013960010794057600136000108052576001396001081225400014320010830454000139600108486540001432001086685400013960010885054000143200109032540001396001092145400014320010939654000139600109585540001432001097955400013960010994954000143200110159540001396001103135400014320011052354000139600110677540001432001108945400013960011104154000143200111258540001396001114055400014320011162254000139600111776540001432001119865400013960011214054000143200112350540001396001125045400014320011272154000139600112868540001432001130855400013960011323254000143200113449540001396001135965400014320011381354000139600113967540001432001141775400013960011433154000143200114541540001396001146955400014320011491254000139600115059540001432001163685040013600011691457600139600">>,
       <<28656, "086424577441288000898115760013240009113354000128800">>,
       <<(0 - 57360), "05434457360129040074197573601288000878855760013240008797754000128800089892576001324000908075400012880009425657600132400094336540001288001030015760013240010318454000128800">>,
       <<14064, "08173672336114400">>,
       <<8008, "0824197839210720010192779200110800102109756001072001023257920011080010247475600107200102648792001108001028237560010720010301279200110800103195756001072001033767920011080010355875600107200103747792001108001039227560010720010410479200110800104286756001072001044687920011080010465075600107200104832792001108001050147560010720010519679200110800105385756001072001055677920011080010574975600107200105931792001108001061137560010720010629579200110800106477756001072001066597920011080010684175600107200107023792001108001072057560010720010738779200110800107576756001072001077587920011080010794075600107200108122792001108001083047560010720010848679200110800108668756001072001088507920011080010903275600107200109214792001108001093967560010720010958579200110800109767756001072001099497920011080011013175600107200110313792001108001105240360010720011067803600110800110895036001072001110420360011080011125903600107200111406036001108001116230360010720011177703600110800111987036001072001121410360011080011235103600107200112505036001108001127220360010720011286903600110800113086036001072001132330360011080011345003600107200113597036001108001138140360010720011396803600110800114178036001072001143320360011080011454203600107200114696036001108001149130360010720011506003600110800115277036001072001154240360011080011564103600107200115795036001108001160050360010720011615903600110800116369036001072001165230360011080011673303600107200116887036001108001171040360010720011725103600110800117468036001072001176150360011080011783203600107200117986036001108001181960360010720011835003600110800118560036001072001187140360011080011893103600107200119078036001108001192950360010720011944203600110800119659036001072001198130360011080012002303600107200120177036001108001203870360010720012054103600110800120751036001072001209050360011080012112203600107200121269036001108001214860360010720012163303600110800121850036001072001220040360011080012221403600107200122368036001108001225780360010720012273203600110800122949036001072001230960360011080012331303600107200123460036001108001236770360010720012382403600110800124041036001072001241950360011080012440503600107200124559036001108001247690360010720012492303600110800125140036001072001252870360011080012550403600107200125651036001108001258680360010720012602203600110800126232036001072001263860360011080012659603600107200126750036001108001269600360010720012711403600110800127331036001072001274780360011080012769503600107200127842036001108001280590360010720012821303600110800128423036001072001285770360011080012878703600107200128941036001108001291580360010720012930503600110800129522036001072001296690360011080012988603600107200130040036001108001302500360010720013040403600110800130614036001072001307680360011080013097803600107200131132036001108001313490360010720013149603600110800131713036001072001318600360011080013207703600107200132231036001108001324410360010720013259503600110800132805036001072001329590360011080013317603600107200133323036001108001335400360010720013368703600110800133904036001072001340510360011080013426803600107200134422036001108001346320360010720013478603600110800134996036001072001351500360011080013536703600107200135514036001108001357310360010720013587803600110800136095036001072001362490360011080013645903600107200136613036001108001368230360010720013697703600110800137187036001072001373410360011080013755803600107200137705036001108001379220360010720013806903600110800138286036001072001384400360011080013865003600107200138804036001108001390140360010720013916803600110800139385036001072001395320360011080013974903600107200139896036001108001401130360010720014026703600110800140477036001072001406310360011080014084103600107200140995036001108001412050360010720014135903600110800141576036001072001417230360011080014194003600107200142087036001108001423040360010720014245803600110800142668036001072001428220360011080014303203600107200143186036001108001434030360010720014355003600110800143767036001072001439140360011080014413103600107200144278036001108001444950360010720014464903600110800144859036001072001450130360011080014522303600107200145377036001108001455940360010720014574103600110800145958036001072001461050360011080014632203600107200146476036001108001466860360010720014684003600110800147050036001072001472040360011080014741403600107200">>,
       <<20928, "0833186547212160008556064800125200104107612001288001042905760012520010447261200128800104655576001252001048376120012880010502057600125200105203612001288001053856840012520010556768400128800105749684001252001059316840012880010611368400125200106295684001288001064776840012520010665968400128800106841684001252001070236840012880010720568400125200107387684001288001075766840012520010794072000121600108052720001252001081226840012880010830468400125200108486684001288001086686840012520010885068400128800109032684001252001092146840012880010939668400125200109585684001288001097956840012520010994968400128800110159684001252001103136840012880011052368400125200110677684001288001108946840012520011104168400128800111258684001252001114056840012880011162268400125200111776684001288001119866840012520011214068400128800112350684001252001125046840012880011272168400125200112868684001288001130856840012520011323268400128800113449684001252001135966840012880011381368400125200113967684001288001141776840012520011433168400128800114541684001252001149127200012160011505972000125200">>,
       <<19900, "081719017001216000855606480012520010410761200128800104290576001252001044726120012880010465557600125200104837612001288001050205760012520010520361200128800105385684001252001055676840012880010574968400125200105931684001288001061136840012520010629568400128800106477684001252001066596840012880010684168400125200107023684001288001072056840012520010738768400128800107576684001252001079407200012160010805272000125200108122684001288001083046840012520010848668400128800108542576001252001086687200012160010885072000125200109032720001216001092147200012520010939672000121600109585720001252001097957200012160010994972000125200110159720001216001103137200012520011052372000121600110677720001252001108947200012160011104172000125200111258720001216001114057200012520011162272000121600111776720001252001119867200012160011214072000125200112350720001216001125047200012520011272172000121600112868720001252001130857200012160011323272000125200113449720001216001135967200012520011381372000121600113967720001252001141777200012160011433172000125200114541720001216001146957200012520011491272000121600115059720001252001163686840012160011700572000125200">>,
       <<17610, "08168868790118000085560684001216001041076480012520010429061200121600104472648001252001046556120012160010483764800125200105020612001216001052036480012520010538572000121600105567720001252001057497200012160010593172000125200106113720001216001062957200012520010647772000121600106659720001252001068417200012160010702372000125200107205720001216001073877200012520010757672000121600107940756001180001080527560012160010812272000125200108304720001216001084867200012520010866872000121600108850720001252001090327200012160010921472000125200109396720001216001095857200012520010979572000121600109949720001252001101597200012160011031372000125200110523720001216001106777200012520011089472000121600111041720001252001112587200012160011140572000125200111622720001216001117767200012520011198672000121600112140720001252001123507200012160011250472000125200112721720001216001128687200012520011308572000121600113232720001252001134497200012160011359672000125200113813720001216001139677200012520011417772000121600114331720001252001145417200012160011469572000125200114912720001216001150597200012520011636868400121600">>,
       <<12324, "08331974076110800085560756001180001041076840012160010465564800118000104837684001216001050206480011800010520368400121600105385756001180001055677560012160010574975600118000105931756001216001061137560011800010629575600121600106477756001180001066597560012160010684175600118000107205792001144001073877920011800010757679200114400107758792001180001079407920011440010805279200118000108304792001144001084867920011800010866879200114400108850792001180001090327920011440010921479200118000109396792001144001095857920011800010979579200114400109949792001180001101597920011440011031379200118000110523792001144001106777920011800011089479200114400111041792001180001112587920011440011140579200118000111622792001144001117767920011800011198679200114400112140792001180001123507920011440011250479200118000">>,
       <<25180, "0768046122012559007856960810125200090137576001288000909415400013240009111254000125200">>,
       <<26240, "08642460160127000089800594001324000911335400012700009208459400128800092814576001270000978075940012880010657357600125200">>,
       <<30180, "07744456220130600078814558001324001166615400013060011765554000132400">>,
       <<12368, "0817367403211440010088172000110800">>,
       <<15268, "0833197113211440008556072000118000104107684001216001046556480011800010483768400121600105020648001180001052036840012160010538575600118000105567756001216001057497560011800010593175600121600106113756001180001062957560012160010647775600118000106659756001216001068417560011800010702375600121600107205756001180001073877560012160010757675600118000107940792001144001080527920011800010812275600121600108304756001180001084867560012160010866875600118000108850756001216001090327560011800010921475600121600109396756001180001095857560012160010979575600118000109949756001216001101597560011800011031375600121600110523756001180001106777560012160011089475600118000111041756001216001112587560011800011140575600121600111622756001180001117767560012160011198675600118000112140756001216001123507560011800011250475600121600">>,
       <<15712, "08331970688114400085560720001180001041076840012160010465564800118000104837684001216001050206480011800010520368400121600105385756001180001055677560012160010574975600118000105931756001216001061137560011800010629575600121600106477756001180001066597560012160010684175600118000107023756001216001072057560011800010738775600121600107576756001180001080527560012160010830475600118000108486756001216001086687560011800010885075600121600109032756001180001092147560012160010939675600118000109585756001216001097957560011800010994975600121600110159756001180001103137560012160011052375600118000110677756001216001108947560011800011104175600121600111258756001180001114057560012160011162275600118000111776756001216001119867560011800011214075600121600112350756001180001125047560012160011788564800118000">>,
       <<23087, "081736633131234000898926300013240009099054000123400">>,
       <<11212, "09167075188110800">>,
       <<34248, "07649252152132400091104540001396001041074680014320010429043200139600104472468001432001046554320013960010483746800143200105020432001396001052034680014320010538554000139600105567540001432001057495400013960010593154000143200106113540001396001062955400014320010647754000139600106659540001432001068415400013960010702354000143200107205540001396001073875400014320010757654000139600107940576001360001080525760013960010812254000143200108304540001396001084865400014320010866854000139600108850540001432001090325400013960010921454000143200109396540001396001095855400014320010979554000139600110159576001360001103135760013960011052357600136000110677576001396001108945760013600011104157600139600111258576001360001114055760013960011162257600136000111776576001396001119865760013600011214057600139600112350576001360001125045760013960011272157600136000112868576001396001130855760013600011323257600139600113449576001360001135965760013960011381357600136000113967576001396001141775760013600011433157600139600114541576001360001146955760013960011491257600136000115059576001396001163685400013600011688657600139600">>,
       <<16073, "08331970327114400085560720001180001041076840012160010465564800118000104837684001216001050206480011800010520368400121600105385756001180001055677560012160010574975600118000105931756001216001061137560011800010629575600121600106477756001180001066597560012160010684175600118000107023756001216001072057560011800010738775600121600107576756001180001077587560012160010794075600118000">>,
       <<30472, "07744455928130600078814558001324000921155400013600009221950400132400092421540001360000925825040013240009278454000136000092946504001324000931845400013600009331050400132400094234540001306000946445580013420009477152200130600095025558001342000951585220013060009537555800134200095515522001306000957395580013420009587952200130600096103558001342000962435220013060009646755800134200096607522001306000969335580013240010633761200136000106491612001324001067016120013600010685561200132400">>,
       <<24925, "076409614751252000864856120012640008965060000127000089818594001324000911225400012700010438257600128800">>,
       <<36892, "08331949508136000085560504001396001041074680014320010429043200139600104472468001432001046554320013960010483746800143200105020432001396001052034680014320010538554000139600105567540001432001057495400013960010593154000143200106113540001396001062955400014320010647754000139600106659540001432001068415400013960010702354000143200107205540001396001073875400014320010757654000139600107940576001360001080525760013960010812254000143200108304540001396001084865400014320010866854000139600108850540001432001090325400013960010921454000143200109396540001396001095855400014320010979554000139600109949540001432001101595400013960011031354000143200110523540001396001106775400014320011089454000139600111041540001432001112585400013960011140554000143200111622540001396001117765400014320011198654000139600112140540001432001123505400013960011250454000143200112721540001396001128685400014320011308554000139600113232540001432001134495400013960011359654000143200113813540001396001139675400014320011417754000139600114331540001432001145415400013960011469554000143200114912540001396001150595400014320011636850400139600">>,
       <<29160, "0729715724012880008821957600132400091131576001288000913675760013240009150654000128800091702576001324000919025400012880009208457600132400092237540001288000924495760013240009260254000128800092814576001324000929675400012880009317957600132400093332540001288000934845760013240009372954000128800093880576001324000940945400012880009424557600132400094459540001288000946105760013240009479354000128800094976576001324000951595400012880009534157600132400095524540001288000957065760013240009588954000128800096071576001324000962545400012880009649857600132400096620540001288000968635760013240009698554000128800101550576001324001017335400012880010191557600132400102098540001288001034675760013240010355954000128800">>,
       <<16631, "0833196976911800008556068400121600104107648001252001042906120012160010447264800125200104655612001216001048376480012520010502061200121600105203648001252001053857200012160010556772000125200105749720001216001059317200012520010611372000121600106295720001252001064777200012160010665972000125200106841720001216001070237200012520010720572000121600107387720001252001075767200012160010794075600118000">>,
       <<10751, "083319756491108000953107560011440010410772000118000104290684001144001044727200011800010465568400114400104837720001180001050206840011440010520372000118000105385792001144001055677920011800010574979200114400105931792001180001061137920011440010629579200118000106477792001144001066597920011800010684179200114400107023792001180001072057920011440010738779200118000107576792001144001079408280011080010812275600114400108304720001108001084867560011440010866872000110800108850756001144001092147200011800010939668400114400109585720001180001101596840011440011031372000118000110523684001144001106777200011800011089468400114400111041720001180001112586840011440011140572000118000111622684001144001117767200011800011198668400114400112140720001180001123506840011440011250472000118000112595684001144001127218280011080011286882800114400">>,
       <<12344, "08737874056112600102636702001162001028497020011440010300472000118000103137720001144001032867200011260010343273800116200103547702001126001037317380011620010391770200112600107791738001162001079337020011260010811573800116200108299702001126001084807380011620010866470200112600108845738001162001090297020011260010921073800116200109394702001126001095757380011620010975970200112600109941738001162001101257020011260011030673800116200110490702001126001106717380011620011085570200112600111036738001162001112207020011260011140273800116200111586702001126001117677380011620011195170200112600112132738001162001123167020011260011249773800116200112681702001126001128637380011620011304770200112600113958738001162001141427020011260011432473800116200114508702001126001146897380011620011487370200112600115054738001162001152387020011260011541973800116200115603702001126001157857380011620011596970200112600116150738001162001163347020011260011651573800116200116699702001126001168807380011620011706470200112600117246738001162001174307020011260011761173800116200117795702001126001179767380011620011816070200112600118341738001162001185257020011260011870773800116200118891702001126001190727380011620011925670200112600">>,
       <<21516, "0918246488411980010648166600121600">>,
       <<33539, "070049540001324000920855400013600009221854000132400092421540001360000925825400013240009282054000136000092946540001324000931845400013600009331054000132400">>,
       <<20391, "081726660091216000855606480012520010410761200128800104290576001252001044726120012880010465557600125200104837612001288001050205760012520010520361200128800105385684001252001055676840012880010574968400125200105931684001288001061136840012520010629568400128800106477684001252001066596840012880010684168400125200107023684001288001072056840012520010738768400128800107576684001252001079407200012160010805272000125200108122684001288001083046840012520010848668400128800108668684001252001088506840012880010903268400125200109214684001288001093966840012520010958568400128800109795684001252001099496840012880011015968400125200110313684001288001105236840012520011067768400128800110894684001252001110416840012880011125868400125200111405684001288001116226840012520011177668400128800111807684001252001119867200012160011214072000125200112350720001216001125047200012520011272172000121600112868720001252001130857200012160011323272000125200113449720001216001135967200012520011381372000121600113967720001252001141777200012160011433172000125200114541720001216001146957200012520011491272000121600115059720001252001163686840012160011694972000125200">>,
       <<25652, "0764706074812520010292161200128800104837576001324001050205400012880010520357600132400105385540001288001055675760013240010574954000128800105931576001324001061135400012880010629557600132400106477540001288001066595760013240010684154000128800107023576001324001072055400012880010738757600132400107576540001288001077585760013240010794054000128800108122576001324001083045400012880010848657600132400108668540001288001088505760013240010903254000128800109214576001324001093965400012880010958557600132400109767540001288001099495760013240011013154000128800110313576001324001104955400012880011143964800132400111593612001288001117756480013240011195761200128800112139648001324001123216120012880011250364800132400112685612001288001128676480013240011304961200128800113231648001324001134206120012880011652164800132400116703540001288001168856480013240011706754000128800">>,
       <<34374, "0817195202612880008556057600132400104107540001432001042904320013960010447246800143200104655432001396001048374680014320010502043200139600105203468001432001053855400013960010556754000143200105749540001396001059315400014320010611354000139600106295540001432001064775400013960010665954000143200106841540001396001070235400014320010720554000139600107387540001432001075765400013960010794057600136000108052576001396001081225400014320010830454000139600108486540001432001086685400013960010885054000143200109032540001396001092145400014320010939654000139600109585540001432001097955400013960010994954000143200110159540001396001103135400014320011052354000139600110677540001432001108945400013960011104154000143200111258540001396001114055400014320011162254000139600111776540001432001119865400013960011214054000143200112350540001396001125045400014320011272154000139600112868540001432001130855400013960011323254000143200113449540001396001135965400014320011381354000139600113967540001432001141775400013960011433154000143200114541540001396001146955400014320011491254000139600115059540001432001152294320013960011636854000136000">>,
       <<24624, "07680461776125590078569608101252000901375760012880009094154000132400091112540001252000916886120012880009462457600125200">>,
       <<31651, "08278554749132400085560540001360001041075040013960010429046800136000104472504001396001046554680013600010483750400139600105020468001360001052035040013960010538557600136000105567576001396001057495760013600010593157600139600106113576001360001062955760013960010647757600136000106659576001396001068415760013600010702357600139600107205576001360001073875760013960010757657600136000107940612001324001080526120013600010812257600139600108304576001360001084865760013960010866857600136000108850576001396001090325760013600010921457600139600109396576001360001095855760013960010979557600136000109949576001396001101595760013600011031357600139600110523576001360001106775760013960011089457600136000111041576001396001112585760013600011140557600139600111622576001360001117765760013960011198657600136000112140576001396001123505760013600011250457600139600112721576001360001128685760013960011308557600136000113232576001396001134495760013600011359657600139600113813576001360001139675760013960011417757600136000114331576001396001145415760013600011469557600139600114912576001360001150595760013960011636854000136000">>,
       <<31138, "08171955262128800085560576001324001041075400013600010429050400132400104472540001360001046555040013240010483754000136000105020504001324001052035400013600010538561200132400105567612001360001057496120013240010593161200136000106113612001324001062956120013600010647761200132400106659612001360001068416120013240010702361200136000107205612001324001073876120013600010757661200132400107940648001288001080526480013240010812261200136000108304612001324001084866120013600010866861200132400108850612001360001090326120013240010921461200136000109396612001324001095856120013600010979561200132400109949612001360001101596120013240011031361200136000110523612001324001106776120013600011089461200132400111041612001360001112586120013240011140561200136000111622612001324001117766120013600011198661200132400112140612001360001123506120013240011250461200136000112721612001324001128686120013600011308561200132400113232612001360001134496120013240011359661200136000113813612001324001139676120013600011417761200132400114331612001360001145416120013240011469561200136000114912612001324001150596120013600011636857600132400">>,
       <<14553, "0804597184711350508156700895114400085560720001180001041076840012160010429064800118000104472684001216001046556480011800010483768400121600105020648001180001052036840012160010538575600118000105567756001216001057497560011800010593175600121600106113756001180001062957560012160010647775600118000106659756001216001068417560011800010702375600121600107205756001180001073877560012160010757675600118000107940792001144001080527920011800010812275600121600108304756001180001084867560012160010866875600118000108850756001216001090327560011800010921475600121600109396756001180001095857560012160010979575600118000109949756001216001101597560011800011031375600121600110523756001180001106777560012160011089475600118000111041756001216001112587560011800011140575600121600111622756001180001117767560012160011198675600118000112140756001216001123507560011800011250475600121600112721756001180001128687560012160011308575600118000113232756001216001134497560011800011359675600121600113813756001180001139677560012160011417775600118000114331756001216001145417560011800011469575600121600114912756001180001150597560012160011636872000118000">>,
       <<10680, "083319757201108000953107560011440010410772000118000104290684001144001044727200011800010465568400114400104837720001180001050206840011440010520372000118000105385792001144001055677920011800010574979200114400105931792001180001061137920011440010629579200118000106477792001144001066597920011800010684179200114400107023792001180001072057920011440010738779200118000107576792001144001079408280011080010812282800114400108304828001108001084868280011440010866882800110800108850828001144001090328280011080010921482800114400109949792001180001101597920011440011031379200118000110523792001144001106777920011800011089479200114400111041792001180001112587920011440011140579200118000111622792001144001117767920011800011198679200114400112140792001180001123507920011440011250479200118000112721792001144001128687920011800011308579200114400113232792001180001134497920011440011359679200118000113813792001144001139677920011800011417779200114400114331792001180001145417920011440011469579200118000114912792001144001150597920011800011527679200114400">>,
       <<(0 - 6160), "068589061600931280788150720009280008044503600096400080581072000928000807010360009640008092903600092800081067036000964000812940360009280008143103600096400081659036000928000817970360009640008202503600092800082162036000964000823900360009280008330503600096400083486036000928000840360360009640008420403600092800084393036000964000845680360009280008476403600096400084939036000928000851350360009640008530303600092800085863036000964000860310360009280008621303600096400086395036000928000869480360009640008713003600092800087305036000964000874940360009280008769003600096400087858036000928000880400360009640008822203600092800088397036000964000885860360009280008878203600096400088999036000928000890970360009640008932103600092800089503036000964000896860360009280008984603600096400089888000001000000900000000009640009007003600092800090210036000964000902450000010000009037800000096400090441036000928000905740360009640009061600000100000090742000000964000908050360009280009093803600096400090980000001000000911060000009640009116903600092800091330036000964000915120360009280009169414400096400091876144000928000920581440009640009224014400092800092422144000964000926041440009280009278614400096400092968144000928000931501440009640009333914400092800093521144000964000937031440009280009388514400096400094067144000928000942491440009640009443114400092800094613144000964000947951440009280009497714400096400095166144000928000953481440009640009553014400092800095712144000964000958941440009280009607614400096400096258144000928000964401440009640009662214400092800096804144000964000969861440009280009716814400096400097357144000928000975391440009640009772114400092800097903144000964000980851440009280009826714400096400098449144000928000986311440009640010264203600100000102824036000964001030130360010000010319503600096400103377036001000001035590720009640010374103600100000103923072000964001041050720010000010428707200096400104469072001000001046510720009640010483310800100000105015072000964001051970720010000010538607200096400105568072001000001057500720009640010593207200100000106114072000964001062960720010000010647807200096400106660072001000001068420720009640010702407200100000107206072000964001073880720010000010757707200096400107759072001000001079410720009640010812307200100000108669036000964001088510360010000010903303600096400109215036001000001093970360009640010958603600100000109796036000964001099500360010000011016003600096400110314036001000001105240360009640011067803600100000110895036000964001110420360010000011125903600096400111406036001000001116230360009640011177703600100000111987036000964001121410360010000011235103600096400112505036001000001127220360009640011286903600100000113086036000964001132330360010000011345003600096400113597036001000001138140360009640011396803600100000114178036000964001143320360010000011454203600096400114696036001000001149130360009640011506003600100000115277036000964001154240360010000011564103600096400115795036001000001160050360009640011615903600100000116369036000964001165230360010000011673303600096400116887036001000001171040360009640011725103600100000117468036000964001176150360010000011783203600096400117986036001000001181960360009640011835003600100000118560036000964001187140360010000011893103600096400119078036001000001192950360009640011944203600100000119659036000964001198130360010000012002303600096400120177036001000001203870360009640012054103600100000120751036000964001209050360010000012112203600096400121269036001000001214860360009640012163303600100000121850036000964001220040360010000012221403600096400122368036001000001225780360009640012273203600100000122949036000964001230960360010000012331303600096400123460036001000001236770360009640012382403600100000124041036000964001241950360010000012440503600096400124559036001000001247690360009640012492303600100000125140036000964001252870360010000012550403600096400125651036001000001258680360009640012602203600100000126232036000964001263860360010000012659603600096400126750036001000001269600360009640012711403600100000127331036000964001274780360010000012769503600096400127842036001000001280590360009640012821303600100000128423036000964001285770360010000012878703600096400128941036001000001291580360009640012930503600100000129522036000964001296690360010000012988603600096400130040036001000001302500360009640013040403600100000130614036000964001307680360010000013097803600096400131132036001000001313490360009640013149603600100000131713036000964001318600360010000013207703600096400132231036001000001324410360009640013259503600100000132805036000964001329590360010000013317603600096400133323036001000001335400360009640013368703600100000133904036000964001340510360010000013426803600096400134422036001000001346320360009640013478603600100000134996036000964001351500360010000013536703600096400135514036001000001357310360009640013587803600100000136095036000964001362490360010000013645903600096400136613036001000001368230360009640013697703600100000137187036000964001373410360010000013755803600096400137705036001000001379220360009640013806903600100000138286036000964001384400360010000013865003600096400138804036001000001390140360009640013916803600100000139385036000964001395320360010000013974903600096400139896036001000001401130360009640014026703600100000140477036000964001406310360010000014084103600096400140995036001000001412050360009640014135903600100000141576036000964001417230360010000014194003600096400142087036001000001423040360009640014245803600100000142668036000964001428220360010000014303203600096400143186036001000001434030360009640014355003600100000143767036000964001439140360010000014413103600096400144278036001000001444950360009640014464903600100000144859036000964001450130360010000014522303600096400145377036001000001455940360009640014574103600100000145958036000964001461050360010000014632203600096400146476036001000001466860360009640014684003600100000147050036000964001472040360010000014741403600096400">>,
       <<(0 - 15558), "080737155580880420809151195808444208111015558088042081265119580844420853902275808560008978321600089200090063180000856000902172160008920009044118000085600090574216000892000908121800008560009093821600089200091176180000856000917362160008920009185518000085600092107216000892000922121800008560009247121600089200092576180000856000928422160008920009294018000085600093206216000892000933041800008560009357021600089200093675180000856000950332160008920009518718000085600101578216000892001017601800008560010194221600089200102124180000856001023062160008920010249518000085600102670216000892001028591800008560010304121600089200103223180000856001034052160008920010358718000085600103769216000892001039511800008560010413321600089200104315180000856001044972160008920010468618000085600104861216000892001050501800008560010523221600089200105414180000856001055962160008920010577818000085600105960216000892001061421800008560010630321600089200106506180000856001066672160008920010687718000085600107031216000892001072411800008560010739521600089200107605180000856001077662160008920010796918000085600108130216000892001083331800008560010849421600089200108704180000856001088582160008920010906818000085600109222216000892001094321800008560010959321600089200109796180000856001099572160008920011016018000085600110321216000892001105241800008560011068521600089200110895180000856001110492160008920011125918000085600111413216000892001116231800008560011178421600089200111987180000856001121482160008920011235118000085600112512216000892001127221800008560011287621600089200113086180000856001132402160008920011345018000085600113583216000892001138211800008560011394721600089200114185180000856001143112160008920011454918000085600114682216000892001149201800008560011504621600089200115284180000856001154102160008920011564818000085600115774216000892001160121800008560011613821600089200116376180000856001165022160008920011674018000085600116873216000892001171111800008560011723721600089200117475180000856001176012160008920011783918000085600117965216000892001182031800008560011832921600089200118567180000856001187002160008920011893818000085600119064216000892001193021800008560011942821600089200119666180000856001197922160008920012003018000085600120156216000892001203941800008560012052021600089200120758180000856001208912160008920012112918000085600121255216000892001214931800008560012161921600089200121857180000856001219832160008920012222118000085600122347216000892001225851800008560012271821600089200122956180000856001230822160008920012332018000085600123446216000892001236841800008560012381021600089200124048180000856001241742160008920012441218000085600124538216000892001247761800008560012490921600089200125147180000856001252732160008920012551118000085600125637216000892001258751800008560012600121600089200126239180000856001263652160008920012660318000085600126729216000892001269671800008560012710021600089200127338180000856001274642160008920012770218000085600127828216000892001280661800008560012819221600089200128430180000856001285562160008920012879418000085600128927216000892001291651800008560012929121600089200129529180000856001296552160008920012989318000085600130019216000892001302571800008560013038321600089200130621180000856001307472160008920013098518000085600131118216000892001313561800008560013148221600089200131720180000856001318462160008920013208418000085600132210216000892001324481800008560013257421600089200132812180000856001329452160008920013318318000085600133309216000892001335471800008560013367321600089200133911180000856001340372160008920013427518000085600134401216000892001346391800008560013476521600089200135003180000856001351362160008920013537418000085600135500216000892001357381800008560013586421600089200136102180000856001362282160008920013646618000085600136592216000892001368301800008560013695621600089200137194180000856001373272160008920013756518000085600137691216000892001379291800008560013805521600089200138293180000856001384192160008920013865718000085600138783216000892001390211800008560013915421600089200139392180000856001395182160008920013975618000085600139882216000892001401201800008560014024621600089200140484180000856001406102160008920014084818000085600140974216000892001412121800008560014134521600089200141583180000856001417092160008920014194718000085600142073216000892001423111800008560014243721600089200142675180000856001428012160008920014303918000085600143172216000892001434101800008560014353621600089200143774180000856001439002160008920014413818000085600144264216000892001445021800008560014462821600089200144866180000856001449922160008920014523018000085600145363216000892001456011800008560014572721600089200145965180000856001460912160008920014632918000085600146455216000892001466931800008560014681921600089200147057180000856001471832160008920014742118000085600">>,
       <<(0 - 3696), "0825270369609640009150607200100000103748000001036001039230360010000010410503600103600104287036001000001044690360010360010465103600100000104833036001036001050150360010000010519703600103600105386036001000001055680360010360010575003600100000105932036001036001061140360010000010629603600103600106478036001000001066600360010360010684203600100000107024036001036001072060360010000010738803600103600107577036001000001077590360010360010794103600100000108123036001036001083050360010000010848703600103600108669036001000001088510360010360010903303600100000109215036001036001093970360010000010958603600103600109796036001000001099500360010360011016003600100000110314036001036001105240360010000011067803600103600110895036001000001110420360010360011125903600100000111406036001036001116230360010000011177703600103600111987036001000001121410360010360011235103600100000112505036001036001127220360010000011286903600103600113086036001000001132330360010360011345003600100000113597036001036001138140360010000011396803600103600114178036001000001143320360010360011454203600100000114696036001036001149130360010000011506003600103600115277036001000001154240360010360011564103600100000115795036001036001160050360010000011615903600103600116369036001000001165230360010360011673303600100000116887036001036001171040360010000011725103600103600117468036001000001176150360010360011783203600100000117986036001036001181960360010000011835003600103600118560036001000001187140360010360011893103600100000119078036001036001192950360010000011944203600103600119659036001000001198130360010360012002303600100000120177036001036001203870360010000012054103600103600120751036001000001209050360010360012112203600100000121269036001036001214860360010000012163303600103600121850036001000001220040360010360012221403600100000122368036001036001225780360010000012273203600103600122949036001000001230960360010360012331303600100000123460036001036001236770360010000012382403600103600124041036001000001241950360010360012440503600100000124559036001036001247690360010000012492303600103600125140036001000001252870360010360012550403600100000125651036001036001258680360010000012602203600103600126232036001000001263860360010360012659603600100000126750036001036001269600360010000012711403600103600127331036001000001274780360010360012769503600100000127842036001036001280590360010000012821303600103600128423036001000001285770360010360012878703600100000128941036001036001291580360010000012930503600103600129522036001000001296690360010360012988603600100000130040036001036001302500360010000013040403600103600130614036001000001307680360010360013097803600100000131132036001036001313490360010000013149603600103600131713036001000001318600360010360013207703600100000132231036001036001324410360010000013259503600103600132805036001000001329590360010360013317603600100000133323036001036001335400360010000013368703600103600133904036001000001340510360010360013426803600100000134422036001036001346320360010000013478603600103600134996036001000001351500360010360013536703600100000135514036001036001357310360010000013587803600103600136095036001000001362490360010360013645903600100000136613036001036001368230360010000013697703600103600137187036001000001373410360010360013755803600100000137705036001036001379220360010000013806903600103600138286036001000001384400360010360013865003600100000138804036001036001390140360010000013916803600103600139385036001000001395320360010360013974903600100000139896036001036001401130360010000014026703600103600140477036001000001406310360010360014084103600100000140995036001036001412050360010000014135903600103600141576036001000001417230360010360014194003600100000142087036001036001423040360010000014245803600103600142668036001000001428220360010360014303203600100000143186036001036001434030360010000014355003600103600143767036001000001439140360010360014413103600100000144278036001036001444950360010000014464903600103600144859036001000001450130360010360014522303600100000145377036001036001455940360010000014574103600103600145958036001000001461050360010360014632203600100000146476036001036001466860360010000014684003600103600147050036001000001472040360010360014741403600100000">>,
       <<(0 - 5644), "07881507200092800090016072000964000911560360009280010215414400096400">>,
       <<(0 - 1624), "0773640162410000010410503600103600104287036001000001044690360010360010465103600100000104833036001036001050150360010000010519703600103600105386036001000001055680360010360010575003600100000105932036001036001061140360010000010629603600103600106478036001000001066600360010360010684203600100000107024036001036001072060360010000010738803600103600107577036001000001077590360010360010794103600100000108123036001036001083050360010000010848703600103600108669036001000001088510360010360010903303600100000109215036001036001093970360010000010958603600103600109796036001000001099500360010360011016003600100000110314036001036001105240360010000011067803600103600110895036001000001110420360010360011125903600100000111406036001036001116230360010000011177703600103600111987036001000001121410360010360011235103600100000112505036001036001127220360010000011286903600103600113086036001000001132330360010360011345003600100000113597036001036001138140360010000011396803600103600114178036001000001143320360010360011454203600100000114696036001036001149130360010000011506003600103600115277036001000001154240360010360011564103600100000115795036001036001160050360010000011615903600103600116369036001000001165230360010360011673303600100000116887036001036001171040360010000011725103600103600117468036001000001176150360010360011783203600100000117986036001036001181960360010000011835003600103600118560036001000001187140360010360011893103600100000119078036001036001192950360010000011944203600103600119659036001000001198130360010360012002303600100000120177036001036001203870360010000012054103600103600120751036001000001209050360010360012112203600100000121269036001036001214860360010000012163303600103600121850036001000001220040360010360012221403600100000122368036001036001225780360010000012273203600103600122949036001000001230960360010360012331303600100000123460036001036001236770360010000012382403600103600124041036001000001241950360010360012440503600100000124559036001036001247690360010000012492303600103600125140036001000001252870360010360012550403600100000125651036001036001258680360010000012602203600103600126232036001000001263860360010360012659603600100000126750036001036001269600360010000012711403600103600127331036001000001274780360010360012769503600100000127842036001036001280590360010000012821303600103600128423036001000001285770360010360012878703600100000128941036001036001291580360010000012930503600103600129522036001000001296690360010360012988603600100000130040036001036001302500360010000013040403600103600130614036001000001307680360010360013097803600100000131132036001036001313490360010000013149603600103600131713036001000001318600360010360013207703600100000132231036001036001324410360010000013259503600103600132805036001000001329590360010360013317603600100000133323036001036001335400360010000013368703600103600133904036001000001340510360010360013426803600100000134422036001036001346320360010000013478603600103600134996036001000001351500360010360013536703600100000135514036001036001357310360010000013587803600103600136095036001000001362490360010360013645903600100000136613036001036001368230360010000013697703600103600137187036001000001373410360010360013755803600100000137705036001036001379220360010000013806903600103600138286036001000001384400360010360013865003600100000138804036001036001390140360010000013916803600103600139385036001000001395320360010360013974903600100000139896036001036001401130360010000014026703600103600140477036001000001406310360010360014084103600100000140995036001036001412050360010000014135903600103600141576036001000001417230360010360014194003600100000142087036001036001423040360010000014245803600103600142668036001000001428220360010360014303203600100000143186036001036001434030360010000014355003600103600143767036001000001439140360010360014413103600100000144278036001036001444950360010000014464903600103600144859036001000001450130360010360014522303600100000145377036001036001455940360010000014574103600103600145958036001000001461050360010360014632203600100000146476036001036001466860360010000014684003600103600147050036001000001472040360010360014741403600100000">>,
       <<(0 - 4056), "07881503600096400080445000001000000805810360009640008070100000100000080929000000964000810670000010000008129400000096400081431000001000000816590000009640008179700000100000082025000000964000821620000010000008239000000096400083305000001000000834860000009640008403600000100000084204000000964000843930000010000008456800000096400084764000001000000849390000009640008513500000100000085303000000964000858630000010000008603100000096400086213000001000000863950000009640008694800000100000087130000000964000873050000010000008749400000096400087690000001000000878580000009640008804000000100000088222000000964000883970000010000008858600000096400088782000001000000889990000009640008909700000100000089321000000964000895030000010000008968600000096400089846000001000000898878280010360008999982800100000090070000000964000902100000010000009024482800103600090377828001000000904410000009640009057400000100000090615828001036000907418280010000009080500000096400090938000001000000909798280010360009110582800100000091169000000964000913300000010000009151200000096400091694108001000000918761080009640009205810800100000092240108000964000924221080010000009260410800096400092786108001000000929681080009640009315010800100000093339108000964000935211080010000009370310800096400093885108001000000940671080009640009424910800100000094431108000964000946131080010000009479510800096400094977108001000000951661080009640009534810800100000095530108000964000957121080010000009589410800096400096076108001000000962581080009640009644010800100000096622108000964000968041080010000009698610800096400097168108001000000973571080009640009753910800100000097721108000964000979031080010000009808510800096400098267108001000000984491080009640009863110800100000102642000001036001028240000010000010301300000103600103195000001000001033770000010360010355903600100000103741000001036001039230360010000010410503600103600104287036001000001044690360010360010465103600100000104833072001036001050150360010000010519703600103600105386036001000001055680360010360010575003600100000105932036001036001061140360010000010629603600103600106478036001000001066600360010360010684203600100000107024036001036001072060360010000010738803600103600107577036001000001077590360010360010794103600100000108123036001036001083050360010000010848703600103600108669036001000001088510360010360010903303600100000109215036001036001093970360010000010958603600103600109796036001000001099500360010360011016003600100000110314036001036001105240360010000011067803600103600110895036001000001110420360010360011125903600100000111406036001036001116230360010000011177703600103600111987036001000001121410360010360011235103600100000112505036001036001127220360010000011286903600103600113086036001000001132330360010360011345003600100000113597036001036001138140360010000011396803600103600114178036001000001143320360010360011454203600100000114696036001036001149130360010000011506003600103600115277036001000001154240360010360011564103600100000115795036001036001160050360010000011615903600103600116369036001000001165230360010360011673303600100000116887036001036001171040360010000011725103600103600117468036001000001176150360010360011783203600100000117986036001036001181960360010000011835003600103600118560036001000001187140360010360011893103600100000119078036001036001192950360010000011944203600103600119659036001000001198130360010360012002303600100000120177036001036001203870360010000012054103600103600120751036001000001209050360010360012112203600100000121269036001036001214860360010000012163303600103600121850036001000001220040360010360012221403600100000122368036001036001225780360010000012273203600103600122949036001000001230960360010360012331303600100000123460036001036001236770360010000012382403600103600124041036001000001241950360010360012440503600100000124559036001036001247690360010000012492303600103600125140036001000001252870360010360012550403600100000125651036001036001258680360010000012602203600103600126232036001000001263860360010360012659603600100000126750036001036001269600360010000012711403600103600127331036001000001274780360010360012769503600100000127842036001036001280590360010000012821303600103600128423036001000001285770360010360012878703600100000128941036001036001291580360010000012930503600103600129522036001000001296690360010360012988603600100000130040036001036001302500360010000013040403600103600130614036001000001307680360010360013097803600100000131132036001036001313490360010000013149603600103600131713036001000001318600360010360013207703600100000132231036001036001324410360010000013259503600103600132805036001000001329590360010360013317603600100000133323036001036001335400360010000013368703600103600133904036001000001340510360010360013426803600100000134422036001036001346320360010000013478603600103600134996036001000001351500360010360013536703600100000135514036001036001357310360010000013587803600103600136095036001000001362490360010360013645903600100000136613036001036001368230360010000013697703600103600137187036001000001373410360010360013755803600100000137705036001036001379220360010000013806903600103600138286036001000001384400360010360013865003600100000138804036001036001390140360010000013916803600103600139385036001000001395320360010360013974903600100000139896036001036001401130360010000014026703600103600140477036001000001406310360010360014084103600100000140995036001036001412050360010000014135903600103600141576036001000001417230360010360014194003600100000142087036001036001423040360010000014245803600103600142668036001000001428220360010360014303203600100000143186036001036001434030360010000014355003600103600143767036001000001439140360010360014413103600100000144278036001036001444950360010000014464903600103600144859036001000001450130360010360014522303600100000145377036001036001455940360010000014574103600103600145958036001000001461050360010360014632203600100000146476036001036001466860360010000014684003600103600147050036001000001472040360010360014741403600100000">>,
       <<(0 - 5280), "0773540528009640008069200000100000080935036000964000810570000010000008132603600096400081422000001000000816910360009640008218100000100000082276036000964000887960000010000008897807200096400089097108001000000893490720009640008946807200100000089713072000964000898390720010000009007007200096400090203072001000000904340720009640009056707200100000090798072000964000909310720010000009116907200096400091295072001000000915330720009640009169407200100000091897072000964000920580720010000009226107200096400092422072001000000926320720009640009278607200100000092989072000964000931500720010000009336007200096400093521072001000000937240720009640009388507200100000094088072000964000942490720010000009445207200096400094613072001000000948160720009640009497707200100000095187072000964000953480720010000009555107200096400095712072001000000959150720009640009607607200100000096279072000964000964400720010000009664307200096400096804072001000000970070720009640009716807200100000097378072000964000975390720010000009774207200096400097903072001000000981060720009640009826707200100000098470072000964000986310720010000009883407200096400098995072001000000992050720009640009936607200100000">>,
       <<(0 - 8768), "07078108768092800">>,
       <<(0 - 1368), "09306001368100000">>,
       <<(0 - 13884), "0788861388408560008821514400089200088390108000856000885791440008920008875410800085600088950144000892000891251080008560008931414400089200089489108000856000896781440008920008985310800085600090042144000892000901381080008560010486814400089200105015108000928001052320720008920010537210800092800105596072000892001059531080008560010610014400089200106317108000856001064641440008920010668110800085600106828144000892001070451080008560010719214400089200107416108000856001075561440008920010778010800085600107927144000892001081441080008560010829114400089200108508108000856001086551440008920010887210800085600109019144000892001092361080008560010938314400089200109607108000856001097541440008920010997110800085600110118144000892001103351080008560011048214400089200110699108000856001108461440008920011106310800085600111210144000892001114271800008560011156721600089200111798180000856001119312160008920011216218000085600112302216000892001125261800008560011266621600089200112890180000856001130302160008920011325418000085600113394216000892001136181800008560011375821600089200113989180000856001141292160008920011435318000085600114493216000892001147171800008560011485721600089200">>,
       <<36292, "0726375010813600008064157600139600080724576001360000897725760013960008985957600136000090041576001396000902235760013600009041257600139600090587576001360001006675760013960010078657600136000101031576001396001011575760013600010139557600139600101521576001360001017595760013960010188557600136000102123576001396001022565760013600010249457600139600102620576001360001028585760013960010298457600136000103222576001396001033485760013600010358657600139600103712576001360001039505760013960010407657600136000104314576001396001044755760013600010468557600139600104811576001360001050495760013960010517557600136000105413576001396001055395760013600010577757600139600105917576001360001061345760013960010628157600136000106505576001396001066525760013600010687657600139600107016576001360001072405760013960010736657600136000107604576001396001077305760013600010796857600139600108094576001360001083325760013960010846557600136000108703576001396001088295760013600010906757600139600109193576001360001094315760013960010958557600136000109795576001396001099495760013600011015957600139600110313576001360001105235760013960011067757600136000110894576001396001110415760013600011119557600139600111405576001360001116225760013960011177657600136000111986576001396001121405760013600011235057600139600112504576001360001127215760013960011286857600136000113085576001396001132395760013600011344957600139600113596576001360001138135760013960011397457600136000114156576001396001143385760013600011452057600139600114702576001360001148845760013960011506657600136000115248576001396001154305760013600011561957600139600115801576001360001159835760013960011616557600136000116347576001396001165295760013600011671157600139600116893576001360001170755760013960011725757600136000117439576001396001176215760013600011781057600139600117992576001360001181745760013960011835657600136000118538576001396001187205760013600011890257600139600119084576001360001192665760013960011944857600136000119630576001396001198195760013600012000157600139600120183576001360001203655760013960012054757600136000120729576001396001209115760013600012109357600139600121275576001360001214575760013960012163957600136000121828576001396001220105760013600012219257600139600122374576001360001225565760013960012273857600136000122920576001396001231025760013600012328457600139600123466576001360001236485760013960012383057600136000124019576001396001242015760013600012438357600139600124565576001360001247475760013960012492957600136000125111576001396001252935760013600012547557600139600125657576001360001258465760013960012602857600136000126210576001396001263925760013600012657457600139600126756576001360001269385760013960012712057600136000127302576001396001274845760013600012766657600139600127848576001360001280375760013960012821957600136000128401576001396001285835760013600012876557600139600128947576001360001291295760013960012931157600136000129493576001396001296755760013600012985757600139600130046576001360001302285760013960013041057600136000130592576001396001307745760013600013095657600139600131138576001360001313205760013960013150257600136000131684576001396001318665760013600013205557600139600132237576001360001324195760013960013260157600136000132783576001396001329655760013600013314757600139600133329576001360001335115760013960013369357600136000133875576001396001340575760013600013424657600139600134428576001360001346105760013960013479257600136000134974576001396001351565760013600013533857600139600135520576001360001357025760013960013588457600136000136073576001396001362555760013600013643757600139600136619576001360001368015760013960013698357600136000137165576001396001373475760013600013752957600139600137711576001360001378935760013960013807557600136000138264576001396001384465760013600013862857600139600138810576001360001389925760013960013917457600136000139356576001396001395385760013600013972057600139600139902576001360001400845760013960014027357600136000140455576001396001406375760013600014081957600139600141001576001360001411835760013960014136557600136000141547576001396001417295760013600014191157600139600142093576001360001422825760013960014246457600136000142646576001396001428285760013600014301057600139600143192576001360001433745760013960014355657600136000143738576001396001439205760013600014410257600139600144284576001360001444735760013960014465557600136000144837576001396001450195760013600014520157600139600145383576001360001455655760013960014574757600136000145929576001396001461115760013600014630057600139600146482576001360001466645760013960014684657600136000147028576001396001472105760013600014739257600139600">>,
       <<33260, "072637531401324000741875400013420008064159400137800080724594001342000897725940013780008985959400134200090041594001378000902235940013420009041259400137800090587594001342001006675940013780010078659400134200101031594001378001011575940013420010139559400137800101521594001342001017595940013780010188559400134200102123594001378001022565940013420010249459400137800102620594001342001028585940013780010298459400134200103222594001378001033485940013420010358659400137800103712594001342001039505940013780010407659400134200104314594001378001044475940013420010468559400137800104811594001342001050495940013780010517559400134200105413594001378001055395940013420010577759400137800105917594001342001061345940013780010628159400134200106505594001378001066525940013420010687659400137800107016594001342001072405940013780010738059400134200107604594001378001077305940013420010796859400137800108115594001342001083325940013780010846559400134200108703594001378001088435940013420010906759400137800109214594001342001094315940013780010958559400134200109795594001378001099495940013420011015959400137800110313594001342001105235940013780011067759400134200110894594001378001110415940013420011125859400137800111405594001342001116225940013780011177659400134200111986594001378001121405940013420011235059400137800112504594001342001127215940013780011286859400134200113085594001378001132395940013420011344959400137800113596594001342001138135940013780011397459400134200114156594001378001143385940013420011452059400137800114702594001342001148845940013780011506659400134200115248594001378001154305940013420011561959400137800115801594001342001159835940013780011616559400134200116347594001378001165295940013420011671159400137800116893594001342001170755940013780011725759400134200117439594001378001176215940013420011781059400137800117992594001342001181745940013780011835659400134200118538594001378001187205940013420011890259400137800119084594001342001192665940013780011944859400134200119630594001378001198195940013420012000159400137800120183594001342001203655940013780012054759400134200120729594001378001209115940013420012109359400137800121275594001342001214575940013780012163959400134200121828594001378001220105940013420012219259400137800122374594001342001225565940013780012273859400134200122920594001378001231025940013420012328459400137800123466594001342001236485940013780012383059400134200124019594001378001242015940013420012438359400137800124565594001342001247475940013780012492959400134200125111594001378001252935940013420012547559400137800125657594001342001258465940013780012602859400134200126210594001378001263925940013420012657459400137800126756594001342001269385940013780012712059400134200127302594001378001274845940013420012766659400137800127848594001342001280375940013780012821959400134200128401594001378001285835940013420012876559400137800128947594001342001291295940013780012931159400134200129493594001378001296755940013420012985759400137800130046594001342001302285940013780013041059400134200130592594001378001307745940013420013095659400137800131138594001342001313205940013780013150259400134200131684594001378001318665940013420013205559400137800132237594001342001324195940013780013260159400134200132783594001378001329655940013420013314759400137800133329594001342001335115940013780013369359400134200133875594001378001340575940013420013424659400137800134428594001342001346105940013780013479259400134200134974594001378001351565940013420013533859400137800135520594001342001357025940013780013588459400134200136073594001378001362555940013420013643759400137800136619594001342001368015940013780013698359400134200137165594001378001373475940013420013752959400137800137711594001342001378935940013780013807559400134200138264594001378001384465940013420013862859400137800138810594001342001389925940013780013917459400134200139356594001378001395385940013420013972059400137800139902594001342001400845940013780014027359400134200140455594001378001406375940013420014081959400137800141001594001342001411835940013780014136559400134200141547594001378001417295940013420014191159400137800142093594001342001422825940013780014246459400134200142646594001378001428285940013420014301059400137800143192594001342001433745940013780014355659400134200143738594001378001439205940013420014410259400137800144284594001342001444735940013780014465559400134200144837594001378001450195940013420014520159400137800145383594001342001455655940013780014574759400134200145929594001378001461115940013420014630059400137800146482594001342001466645940013780014684659400134200147028594001378001472105940013420014739259400137800">>,
       <<36728, "0726064967213600008064157600139600080724576001360000897725760013960008985957600136000090041576001396000902235760013600009041257600139600090587576001360001006675760013960010078657600136000107240576001396001073665760013600010760457600139600107730576001360001079685760013960010809457600136000">>,
       <<33948, "07263752452136000073206504001324000741875400013420008064159400137800080724594001342000897725940013780008985959400134200090041594001378000902235940013420009041259400137800090587594001342001006675940013780010078659400134200101031594001378001011575940013420010139559400137800101521594001342001017595940013780010188559400134200102123594001378001022565940013420010249459400137800102620594001342001028585940013780010298459400134200103222594001378001033485940013420010358659400137800103712594001342001039505940013780010407659400134200104314594001378001044755940013420010468559400137800104811594001342001050495940013780010517559400134200105413594001378001055395940013420010577759400137800105917594001342001061345940013780010628159400134200106505594001378001066525940013420010687659400137800107016594001342001072405940013780010736659400134200107604594001378001077305940013420010796859400137800108094594001342001083325940013780010846559400134200108703594001378001088295940013420010906759400137800109193594001342001094315940013780010958559400134200109795594001378001099495940013420011015959400137800110313594001342001105235940013780011067759400134200110894594001378001110415940013420011125859400137800111405594001342001116225940013780011177659400134200111986594001378001121405940013420011235059400137800112504594001342001127215940013780011286859400134200113085594001378001132395940013420011344959400137800113596594001342001138135940013780011397459400134200114156594001378001143385940013420011452059400137800114702594001342001148845940013780011506659400134200115248594001378001154305940013420011561959400137800115801594001342001159835940013780011616559400134200116347594001378001165295940013420011671159400137800116893594001342001170755940013780011725759400134200117439594001378001176215940013420011781059400137800117992594001342001181745940013780011835659400134200118538594001378001187205940013420011890259400137800119084594001342001192665940013780011944859400134200119630594001378001198195940013420012000159400137800120183594001342001203655940013780012054759400134200120729594001378001209115940013420012109359400137800121275594001342001214575940013780012163959400134200121828594001378001220105940013420012219259400137800122374594001342001225565940013780012273859400134200122920594001378001231025940013420012328459400137800123466594001342001236485940013780012383059400134200124019594001378001242015940013420012438359400137800124565594001342001247475940013780012492959400134200125111594001378001252935940013420012547559400137800125657594001342001258465940013780012602859400134200126210594001378001263925940013420012657459400137800126756594001342001269385940013780012712059400134200127302594001378001274845940013420012766659400137800127848594001342001280375940013780012821959400134200128401594001378001285835940013420012876559400137800128947594001342001291295940013780012931159400134200129493594001378001296755940013420012985759400137800130046594001342001302285940013780013041059400134200130592594001378001307745940013420013095659400137800131138594001342001313205940013780013150259400134200131684594001378001318665940013420013205559400137800132237594001342001324195940013780013260159400134200132783594001378001329655940013420013314759400137800133329594001342001335115940013780013369359400134200133875594001378001340575940013420013424659400137800134428594001342001346105940013780013479259400134200134974594001378001351565940013420013533859400137800135520594001342001357025940013780013588459400134200136073594001378001362555940013420013643759400137800136619594001342001368015940013780013698359400134200137165594001378001373475940013420013752959400137800137711594001342001378935940013780013807559400134200138264594001378001384465940013420013862859400137800138810594001342001389925940013780013917459400134200139356594001378001395385940013420013972059400137800139902594001342001400845940013780014027359400134200140455594001378001406375940013420014081959400137800141001594001342001411835940013780014136559400134200141547594001378001417295940013420014191159400137800142093594001342001422825940013780014246459400134200142646594001378001428285940013420014301059400137800143192594001342001433745940013780014355659400134200143738594001378001439205940013420014410259400137800144284594001342001444735940013780014465559400134200144837594001378001450195940013420014520159400137800145383594001342001455655940013780014574759400134200145929594001378001461115940013420014630059400137800146482594001342001466645940013780014684659400134200147028594001378001472105940013420014739259400137800">>,
       <<35356, "0728495104413600008054957600139600080724576001360000809415760013960008106757600136000081305576001396000814315760013600008977257600139600089859576001360000900415760013960009022357600136000090412576001396000905875760013600009917657600139600099358576001360000995685760013960009970157600136000099932576001396001000655760013600010029657600139600100436576001360001006675760013960010078657600136000101031576001396001011575760013600010139557600139600101521576001360001017595760013960010188557600136000102123576001396001022565760013600010249457600139600102620576001360001028585760013960010298457600136000103222576001396001033485760013600010358657600139600103712576001360001039505760013960010407657600136000104314576001396001044685760013600010468557600139600104832576001360001050495760013960010517557600136000105413576001396001055395760013600010577757600139600105903576001360001061345760013960010628157600136000106505576001396001066525760013600010687657600139600107016576001360001072405760013960010738057600136000107604576001396001077585760013600010794757600139600108122576001360001083115760013960010848657600136000108675576001396001088505760013600010903957600139600109214576001360001094035760013960010958557600136000109774576001396001099495760013600011013857600139600110313576001360001105025760013960011067757600136000110866576001396001110415760013600011119557600139600111405576001360001116015760013960011177657600136000111965576001396001121405760013600011232957600139600112504576001360001126935760013960011286857600136000113057576001396001132395760013600011342157600139600113596576001360001137925760013960011397457600136000114156576001396001143385760013600011452057600139600114702576001360001148845760013960011506657600136000115248576001396001154305760013600011561957600139600115801576001360001159835760013960011616557600136000116347576001396001165295760013600011671157600139600116893576001360001170755760013960011725757600136000117439576001396001176215760013600011781057600139600117992576001360001181745760013960011835657600136000118538576001396001187205760013600011890257600139600119084576001360001192665760013960011944857600136000119630576001396001198195760013600012000157600139600120183576001360001203655760013960012054757600136000120729576001396001209115760013600012109357600139600121275576001360001214575760013960012163957600136000121828576001396001220105760013600012219257600139600122374576001360001225565760013960012273857600136000122920576001396001231025760013600012328457600139600123466576001360001236485760013960012383057600136000124019576001396001242015760013600012438357600139600124565576001360001247475760013960012492957600136000125111576001396001252935760013600012547557600139600125657576001360001258465760013960012602857600136000126210576001396001263925760013600012657457600139600126756576001360001269385760013960012712057600136000127302576001396001274845760013600012766657600139600127848576001360001280375760013960012821957600136000128401576001396001285835760013600012876557600139600128947576001360001291295760013960012931157600136000129493576001396001296755760013600012985757600139600130046576001360001302285760013960013041057600136000130592576001396001307745760013600013095657600139600131138576001360001313205760013960013150257600136000131684576001396001318665760013600013205557600139600132237576001360001324195760013960013260157600136000132783576001396001329655760013600013314757600139600133329576001360001335115760013960013369357600136000133875576001396001340575760013600013424657600139600134428576001360001346105760013960013479257600136000134974576001396001351565760013600013533857600139600135520576001360001357025760013960013588457600136000136073576001396001362555760013600013643757600139600136619576001360001368015760013960013698357600136000137165576001396001373475760013600013752957600139600137711576001360001378935760013960013807557600136000138264576001396001384465760013600013862857600139600138810576001360001389925760013960013917457600136000139356576001396001395385760013600013972057600139600139902576001360001400845760013960014027357600136000140455576001396001406375760013600014081957600139600141001576001360001411835760013960014136557600136000141547576001396001417295760013600014191157600139600142093576001360001422825760013960014246457600136000142646576001396001428285760013600014301057600139600143192576001360001433745760013960014355657600136000143738576001396001439205760013600014410257600139600144284576001360001444735760013960014465557600136000144837576001396001450195760013600014520157600139600145383576001360001455655760013960014574757600136000145929576001396001461115760013600014630057600139600146482576001360001466645760013960014684657600136000147028576001396001472105760013600014739257600139600">>,
       <<31400, "07263755000132400074187540001342000806415940013780008072459400134200089772594001378000898595940013420009004159400137800090223594001342000904125940013780009058759400134200">>,
       <<30928, "07294055472131500080641621001351000807246210013150008977262100135100089859621001315000900416210013510009022362100131500101759621001351001018856210013150010504962100135100105175621001315001079896210013510010809462100131500113484621001351001135966210013150011381362100135100113967621001315001141776210013510011433162100131500">>,
       <<38180, "0726374822013600010407650400137800104314558001414001044475220013780010468555800141400104811522001378001050495580014140010517552200137800105413558001414001055395220013780010577755800139600105917540001378001061345580013960010628154000137800106505558001396001066525400013780010687655800139600107016540001378001072405580013960010736654000137800107604558001396001077305400013780010796855800139600108094540001378001083325580013960010846554000137800108703558001396001088295400013780010906755800139600109193540001378001094315580013960010958554000137800109795558001396001099495400013780011015955800139600110313540001378001105235580013960011067754000137800110894558001396001110415400013780011119555800139600111405540001378001116225580013960011177654000137800111986558001396001121405400013780011235055800139600112504540001378001127215580013960011286854000137800113085558001396001132395400013780011344955800139600113596540001378001138135580013960011397454000137800114156558001396001143385400013780011452055800139600114702540001378001148845580013960011506654000137800115248558001396001154305400013780011561955800139600115801540001378001159835580013960011616554000137800116347558001396001165295400013780011671155800139600116893540001378001170755580013960011725754000137800117439558001396001176215400013780011781055800139600117992540001378001181745580013960011835654000137800118538558001396001187205400013780011890255800139600119084540001378001192665580013960011944854000137800119630558001396001198195400013780012000155800139600120183540001378001203655580013960012054754000137800120729558001396001209115400013780012109355800139600121275540001378001214575580013960012163954000137800121828558001396001220105400013780012219255800139600122374540001378001225565580013960012273854000137800122920558001396001231025400013780012328455800139600123466540001378001236485580013960012383054000137800124019558001396001242015400013780012438355800139600124565540001378001247475580013960012492954000137800125111558001396001252935400013780012547555800139600125657540001378001258465580013960012602854000137800126210558001396001263925400013780012657455800139600126756540001378001269385580013960012712054000137800127302558001396001274845400013780012766655800139600127848540001378001280375580013960012821954000137800128401558001396001285835400013780012876555800139600128947540001378001291295580013960012931154000137800129493558001396001296755400013780012985755800139600130046540001378001302285580013960013041054000137800130592558001396001307745400013780013095655800139600131138540001378001313205580013960013150254000137800131684558001396001318665400013780013205555800139600132237540001378001324195580013960013260154000137800132783558001396001329655400013780013314755800139600133329540001378001335115580013960013369354000137800133875558001396001340575400013780013424655800139600134428540001378001346105580013960013479254000137800134974558001396001351565400013780013533855800139600135520540001378001357025580013960013588454000137800136073558001396001362555400013780013643755800139600136619540001378001368015580013960013698354000137800137165558001396001373475400013780013752955800139600137711540001378001378935580013960013807554000137800138264558001396001384465400013780013862855800139600138810540001378001389925580013960013917454000137800139356558001396001395385400013780013972055800139600139902540001378001400845580013960014027354000137800140455558001396001406375400013780014081955800139600141001540001378001411835580013960014136554000137800141547558001396001417295400013780014191155800139600142093540001378001422825580013960014246454000137800142646558001396001428285400013780014301055800139600143192540001378001433745580013960014355654000137800143738558001396001439205400013780014410255800139600144284540001378001444735580013960014465554000137800144837558001396001450195400013780014520155800139600145383540001378001455655580013960014574754000137800145929558001396001461115400013780014630055800139600146482540001378001466645580013960014684654000137800147028558001396001472105400013780014739255800139600">>,
       <<35756, "072606506441360000806415760013960008072457600136000089772576001396000898595760013600009004157600139600090223576001360000904125760013960009058757600136000100667576001396001007865760013600010724057600139600107366576001360001076045760013960010773057600136000107968576001396001080945760013600010833257600139600108465576001360001087035760013960010882957600136000">>,
       <<34792, "0726375160813600008064157600139600080724576001360000897725760013960008985957600136000090041576001396000902235760013600009041257600139600090587576001360001006675760013960010078657600136000101031576001396001011575760013600010139557600139600101521576001360001017595760013960010188557600136000102123576001396001022565760013600010249457600139600102620576001360001028585760013960010298457600136000103222576001396001033485760013600010358657600139600103712576001360001039505760013960010407657600136000104314576001396001044475760013600010468557600139600104811576001360001050495760013960010517557600136000105413576001396001055395760013600010577757600139600105917576001360001061345760013960010628157600136000106498576001396001066525760013600010687657600139600107016576001360001072405760013960010738057600136000107604576001396001077305760013600010796857600139600108094576001360001083325760013960010846557600136000108703576001396001088295760013600010906757600139600109214576001360001094315760013960010958557600136000109795576001396001099495760013600011015957600139600110313576001360001105235760013960011067757600136000110894576001396001110415760013600011119557600139600111405576001360001116225760013960011177657600136000111986576001396001121405760013600011235057600139600112504576001360001127215760013960011286857600136000113085576001396001132395760013600011344957600139600113596576001360001138135760013960011397457600136000114156576001396001143385760013600011452057600139600114702576001360001148845760013960011506657600136000115248576001396001154305760013600011561957600139600115801576001360001159835760013960011616557600136000116347576001396001165295760013600011671157600139600116893576001360001170755760013960011725757600136000117439576001396001176215760013600011781057600139600117992576001360001181745760013960011835657600136000118538576001396001187205760013600011890257600139600119084576001360001192665760013960011944857600136000119630576001396001198195760013600012000157600139600120183576001360001203655760013960012054757600136000120729576001396001209115760013600012109357600139600121275576001360001214575760013960012163957600136000121828576001396001220105760013600012219257600139600122374576001360001225565760013960012273857600136000122920576001396001231025760013600012328457600139600123466576001360001236485760013960012383057600136000124019576001396001242015760013600012438357600139600124565576001360001247475760013960012492957600136000125111576001396001252935760013600012547557600139600125657576001360001258465760013960012602857600136000126210576001396001263925760013600012657457600139600126756576001360001269385760013960012712057600136000127302576001396001274845760013600012766657600139600127848576001360001280375760013960012821957600136000128401576001396001285835760013600012876557600139600128947576001360001291295760013960012931157600136000129493576001396001296755760013600012985757600139600130046576001360001302285760013960013041057600136000130592576001396001307745760013600013095657600139600131138576001360001313205760013960013150257600136000131684576001396001318665760013600013205557600139600132237576001360001324195760013960013260157600136000132783576001396001329655760013600013314757600139600133329576001360001335115760013960013369357600136000133875576001396001340575760013600013424657600139600134428576001360001346105760013960013479257600136000134974576001396001351565760013600013533857600139600135520576001360001357025760013960013588457600136000136073576001396001362555760013600013643757600139600136619576001360001368015760013960013698357600136000137165576001396001373475760013600013752957600139600137711576001360001378935760013960013807557600136000138264576001396001384465760013600013862857600139600138810576001360001389925760013960013917457600136000139356576001396001395385760013600013972057600139600139902576001360001400845760013960014027357600136000140455576001396001406375760013600014081957600139600141001576001360001411835760013960014136557600136000141547576001396001417295760013600014191157600139600142093576001360001422825760013960014246457600136000142646576001396001428285760013600014301057600139600143192576001360001433745760013960014355657600136000143738576001396001439205760013600014410257600139600144284576001360001444735760013960014465557600136000144837576001396001450195760013600014520157600139600145383576001360001455655760013960014574757600136000145929576001396001461115760013600014630057600139600146482576001360001466645760013960014684657600136000147028576001396001472105760013600014739257600139600">>,
       <<27804, "07294058596128800080641648001324000807246480012880008977264800132400089859648001288000900416480013240009022364800128800101759648001324001018856480012880010504964800132400105175648001288001079896480013240010809464800128800113484648001324001135966480012880011381364800132400113967648001288001141776480013240011433164800128800">>,
       <<3600, "0803967920010720008054982800103600080747036001072000809010360010360008111103600107200081265036001036000891330360010720009007803600103600090225036001072000904140360010360009059603600107200090778036001036000909600360010720009112703600103600102649036001072001028240360010360010301303600107200103195036001036001033770360010720010355903600103600103748036001072001039230360010360010410503600107200104287036001036001044690360010720010465103600103600104833036001072001050150360010360010519703600107200105386036001036001055680360010720010575003600103600105932036001072001061140360010360010629603600107200106478036001036001066600360010720010684203600103600107024036001072001072060360010360010738803600107200107577036001036001077590360010720010794103600103600108123036001072001083050360010360010848703600107200108669036001036001088510360010720010903303600103600109215036001072001093970360010360010958603600107200109796036001036001099500360010720011016003600103600110314036001072001105240360010360011067803600107200110895036001036001110420360010720011125903600103600111406036001072001116230360010360011177703600107200111987036001036001121410360010720011235103600103600112505036001072001127220360010360011286903600107200113086036001036001132330360010720011345003600103600113597036001072001138140360010360011396803600107200114178036001036001143320360010720011454203600103600114696036001072001149130360010360011506003600107200115277036001036001154240360010720011564103600103600115795036001072001160050360010360011615903600107200116369036001036001165230360010720011673303600103600116887036001072001171040360010360011725103600107200117468036001036001176150360010720011783203600103600117986036001072001181960360010360011835003600107200118560036001036001187140360010720011893103600103600119078036001072001192950360010360011944203600107200119659036001036001198130360010720012002303600103600120177036001072001203870360010360012054103600107200120751036001036001209050360010720012112203600103600121269036001072001214860360010360012163303600107200121850036001036001220040360010720012221403600103600122368036001072001225780360010360012273203600107200122949036001036001230960360010720012331303600103600123460036001072001236770360010360012382403600107200124041036001036001241950360010720012440503600103600124559036001072001247690360010360012492303600107200125140036001036001252870360010720012550403600103600125651036001072001258680360010360012602203600107200126232036001036001263860360010720012659603600103600126750036001072001269600360010360012711403600107200127331036001036001274780360010720012769503600103600127842036001072001280590360010360012821303600107200128423036001036001285770360010720012878703600103600128941036001072001291580360010360012930503600107200129522036001036001296690360010720012988603600103600130040036001072001302500360010360013040403600107200130614036001036001307680360010720013097803600103600131132036001072001313490360010360013149603600107200131713036001036001318600360010720013207703600103600132231036001072001324410360010360013259503600107200132805036001036001329590360010720013317603600103600133323036001072001335400360010360013368703600107200133904036001036001340510360010720013426803600103600134422036001072001346320360010360013478603600107200134996036001036001351500360010720013536703600103600135514036001072001357310360010360013587803600107200136095036001036001362490360010720013645903600103600136613036001072001368230360010360013697703600107200137187036001036001373410360010720013755803600103600137705036001072001379220360010360013806903600107200138286036001036001384400360010720013865003600103600138804036001072001390140360010360013916803600107200139385036001036001395320360010720013974903600103600139896036001072001401130360010360014026703600107200140477036001036001406310360010720014084103600103600140995036001072001412050360010360014135903600107200141576036001036001417230360010720014194003600103600142087036001072001423040360010360014245803600107200142668036001036001428220360010720014303203600103600143186036001072001434030360010360014355003600107200143767036001036001439140360010720014413103600103600144278036001072001444950360010360014464903600107200144859036001036001450130360010720014522303600103600145377036001072001455940360010360014574103600107200145958036001036001461050360010720014632203600103600146476036001072001466860360010360014684003600107200147050036001036001472040360010720014741403600103600">>,
       <<(0 - 21600), "0810962880008200008130625200078400081460288000820000816702520007840008981228800082000091141252000784000990232880008200009920525200078400099387288000820000995692520007840009975128800082000099933252000784001001152880008200010029725200078400100479288000820001006682520007840010085028800082000101032252000784001012142880008200010139625200078400101466288000820001017602520007840010187928800082000102124252000784001023062880008200010249525200078400102670288000820001028592520007840010304128800082000103223252000784001034052880008200010358725200078400103769288000820001039512520007840010413328800082000104315252000784001044972880008200010468625200078400104861288000820001050502520007840010523228800082000105414252000784001055962880008200010577825200078400105960288000820001061422520007840010630328800082000106506252000784001066672880008200010687725200078400107031288000820001072412520007840010739528800082000107605252000784001077662880008200010796925200078400108130288000820001083332520007840010849428800082000108704252000784001088582880008200010906825200078400109222288000820001094322520007840010959328800082000109796252000784001099572880008200011016025200078400110321288000820001105242520007840011068528800082000110895252000784001110492880008200011125925200078400111413288000820001116232520007840011178428800082000111987252000784001121482880008200011235125200078400112512288000820001127222520007840011287628800082000113086252000784001132402880008200011345025200078400113583288000820001138212520007840011394728800082000114185252000784001143112880008200011454925200078400114682288000820001149202520007840011504628800082000115284252000784001154102880008200011564825200078400115774288000820001160122520007840011613828800082000116376252000784001165022880008200011674025200078400116873288000820001171112520007840011723728800082000117475252000784001176012880008200011783925200078400117965288000820001182032520007840011832928800082000118567252000784001187002880008200011893825200078400119064288000820001193022520007840011942828800082000119666252000784001197922880008200012003025200078400120156288000820001203942520007840012052028800082000120758252000784001208912880008200012112925200078400121255288000820001214932520007840012161928800082000121857252000784001219832880008200012222125200078400122347288000820001225852520007840012271828800082000122956252000784001230822880008200012332025200078400123446288000820001236842520007840012381028800082000124048252000784001241742880008200012441225200078400124538288000820001247762520007840012490928800082000125147252000784001252732880008200012551125200078400125637288000820001258752520007840012600128800082000126239252000784001263652880008200012660325200078400126729288000820001269672520007840012710028800082000127338252000784001274642880008200012770225200078400127828288000820001280662520007840012819228800082000128430252000784001285562880008200012879425200078400128927288000820001291652520007840012929128800082000129529252000784001296552880008200012989325200078400130019288000820001302572520007840013038328800082000130621252000784001307472880008200013098525200078400131118288000820001313562520007840013148228800082000131720252000784001318462880008200013208425200078400132210288000820001324482520007840013257428800082000132812252000784001329452880008200013318325200078400133309288000820001335472520007840013367328800082000133911252000784001340372880008200013427525200078400134401288000820001346392520007840013476528800082000135003252000784001351362880008200013537425200078400135500288000820001357382520007840013586428800082000136102252000784001362282880008200013646625200078400136592288000820001368302520007840013695628800082000137194252000784001373272880008200013756525200078400137691288000820001379292520007840013805528800082000138293252000784001384192880008200013865725200078400138783288000820001390212520007840013915428800082000139392252000784001395182880008200013975625200078400139882288000820001401202520007840014024628800082000140484252000784001406102880008200014084825200078400140974288000820001412122520007840014134528800082000141583252000784001417092880008200014194725200078400142073288000820001423112520007840014243728800082000142675252000784001428012880008200014303925200078400143172288000820001434102520007840014353628800082000143774252000784001439002880008200014413825200078400144264288000820001445022520007840014462828800082000144866252000784001449922880008200014523025200078400145363288000820001456012520007840014572728800082000145965252000784001460912880008200014632925200078400146455288000820001466932520007840014681928800082000147057252000784001471832880008200014742125200078400">>,
       <<(0 - 26248), "086364262480748000995761440007840009972310800074800099961144000784001000871080007480010028314400078400100437108000748001006471440007840010080110800074800101018144000784001011651080007480010136814400078400101529108000748001017461440007840010189310800074800102110144000784001022641080007480010247414400078400102628108000748001028381440007840010299210800074800103209144000784001033561080007480010357314400078400103720108000748001039371440007840010409110800074800104301144000784001046651440008200010481910800078400105029144000820001051831080007840010540014400082000105547108000784001057641440008200010591110800078400106128144000820001063101080007840010649214400082000106646108000784001068561440008200010701010800078400107227144000820001073741080007840010756314400082000107738108000784001079551440008200010810910800078400108319144000820001084731080007840010868314400082000108837108000784001090471440008200010920110800078400109418144000820001095651080007840010978214400082000109950108000784001101461440008200011030010800078400110496144000820001106851080007840011087414400082000111028108000784001112451440008200011139210800078400111609144000820001117561080007840011197314400082000112120108000784001123371440008200011249110800078400112701144000820001128551080007840011306514400082000113219108000784001134361440008200011358310800078400113800144000820001139681080007840011416414400082000114318108000784001145281440008200011470310800078400114892144000820001151021080007840011520714400082000115459108000784001155851440008200011582310800078400115956144000820001161871080007840011632014400082000116936108000784001170271440008200011730010800078400117391144000820001176641080007840011775514400082000117993108000784001181471440008200011835710800078400118511144000820001187211080007840011887514400082000119085108000784001192461440008200011944910800078400119603144000820001198201080007840011997414400082000120184108000784001203381440008200012054810800078400120702144000820001209121080007840012106614400082000121276108000784001214301440008200012164710800078400121794144000820001220111080007840012216514400082000122375108000784001225291440008200012273910800078400122893144000820001231031080007840012325714400082000123467108000784001236211440008200012383810800078400123985144000820001242021080007840012435614400082000124566108000784001247201440008200012493010800078400125084144000820001252941080007840012544814400082000125665108000784001258121440008200012602910800078400126183144000820001263931080007840012654714400082000126757108000784001269111440008200012712110800078400127275144000820001274851080007840012763914400082000127856108000784001280031440008200012822010800078400128374144000820001285841080007840012873814400082000128948108000784001291021440008200012931210800078400129466144000820001296761080007840012983014400082000130047108000784001302011440008200013041110800078400130565144000820001307751080007840013092914400082000131139108000784001312931440008200013150310800078400131657144000820001318741080007840013202114400082000132238108000784001323921440008200013260210800078400132756144000820001329661080007840013312014400082000133330108000784001334841440008200013369410800078400133848144000820001340651080007840013421214400082000134429108000784001345831440008200013479310800078400134947144000820001351571080007840013531114400082000135521108000784001356751440008200013589210800078400136039144000820001362561080007840013641014400082000136620108000784001367741440008200013698410800078400137138144000820001373481080007840013750214400082000137712108000784001378661440008200013808310800078400138230144000820001384471080007840013860114400082000138811108000784001389651440008200013917510800078400139329144000820001395391080007840013969314400082000139903108000784001400571440008200014027410800078400140428144000820001406381080007840014079214400082000141002108000784001411561440008200014136610800078400141520144000820001417301080007840014188414400082000142101108000784001422481440008200014246510800078400142619144000820001428291080007840014298314400082000143193108000784001433471440008200014355710800078400143711144000820001439211080007840014407514400082000144292108000784001444391440008200014465610800078400144810144000820001450201080007840014517414400082000145384108000784001455381440008200014574810800078400145902144000820001461191080007840014626614400082000146483108000784001466371440008200014684710800078400147001144000820001472111080007840014736514400082000">>,
       <<7200, "102649036001108001028240360010720010301303600110800103195036001072001033770360011080010355903600107200103748036001108001039230360010720010410503600110800104287036001072001044690360011080010465103600107200104833036001108001050150360010720010519703600110800105386036001072001055680360011080010575003600107200105932036001108001061140360010720010629603600110800106478036001072001066600360011080010684203600107200107024036001108001072060360010720010738803600110800107577036001072001077590360011080010794103600107200108123036001108001083050360010720010848703600110800108669036001072001088510360011080010903303600107200109215036001108001093970360010720010958603600110800109796036001072001099500360011080011016003600107200110314036001108001105240360010720011067803600110800110895036001072001110420360011080011125903600107200111406036001108001116230360010720011177703600110800111987036001072001121410360011080011235103600107200112505036001108001127220360010720011286903600110800113086036001072001132330360011080011345003600107200113597036001108001138140360010720011396803600110800114178036001072001143320360011080011454203600107200114696036001108001149130360010720011506003600110800115277036001072001154240360011080011564103600107200115795036001108001160050360010720011615903600110800116369036001072001165230360011080011673303600107200116887036001108001171040360010720011725103600110800117468036001072001176150360011080011783203600107200117986036001108001181960360010720011835003600110800118560036001072001187140360011080011893103600107200119078036001108001192950360010720011944203600110800119659036001072001198130360011080012002303600107200120177036001108001203870360010720012054103600110800120751036001072001209050360011080012112203600107200121269036001108001214860360010720012163303600110800121850036001072001220040360011080012221403600107200122368036001108001225780360010720012273203600110800122949036001072001230960360011080012331303600107200123460036001108001236770360010720012382403600110800124041036001072001241950360011080012440503600107200124559036001108001247690360010720012492303600110800125140036001072001252870360011080012550403600107200125651036001108001258680360010720012602203600110800126232036001072001263860360011080012659603600107200126750036001108001269600360010720012711403600110800127331036001072001274780360011080012769503600107200127842036001108001280590360010720012821303600110800128423036001072001285770360011080012878703600107200128941036001108001291580360010720012930503600110800129522036001072001296690360011080012988603600107200130040036001108001302500360010720013040403600110800130614036001072001307680360011080013097803600107200131132036001108001313490360010720013149603600110800131713036001072001318600360011080013207703600107200132231036001108001324410360010720013259503600110800132805036001072001329590360011080013317603600107200133323036001108001335400360010720013368703600110800133904036001072001340510360011080013426803600107200134422036001108001346320360010720013478603600110800134996036001072001351500360011080013536703600107200135514036001108001357310360010720013587803600110800136095036001072001362490360011080013645903600107200136613036001108001368230360010720013697703600110800137187036001072001373410360011080013755803600107200137705036001108001379220360010720013806903600110800138286036001072001384400360011080013865003600107200138804036001108001390140360010720013916803600110800139385036001072001395320360011080013974903600107200139896036001108001401130360010720014026703600110800140477036001072001406310360011080014084103600107200140995036001108001412050360010720014135903600110800141576036001072001417230360011080014194003600107200142087036001108001423040360010720014245803600110800142668036001072001428220360011080014303203600107200143186036001108001434030360010720014355003600110800143767036001072001439140360011080014413103600107200144278036001108001444950360010720014464903600110800144859036001072001450130360011080014522303600107200145377036001108001455940360010720014574103600110800145958036001072001461050360011080014632203600107200146476036001108001466860360010720014684003600110800147050036001072001472040360011080014741403600107200">>,
       <<(0 - 18000), "">>,
       <<(0 - 18000), "0810962520008560008130621600082000081460252000856000816702160008200008981225200085600091141216000820000990232520008560009920521600082000099387252000856000995692160008200009975125200085600099933216000820001001152520008560010029721600082000100479252000856001006682160008200010085025200085600101032216000820001012142520008560010139621600082000101466252000856001017602160008200010187925200085600102124216000820001023062520008560010249521600082000102670252000856001028592160008200010304125200085600103223216000820001034052520008560010358721600082000103769252000856001039512160008200010413325200085600104315216000820001044972520008560010468621600082000104861252000856001050502160008200010523225200085600105414216000820001055962520008560010577821600082000105960252000856001061422160008200010630325200085600106506216000820001066672520008560010687721600082000107031252000856001072412160008200010739525200085600107605216000820001077662520008560010796921600082000108130252000856001083332160008200010849425200085600108704216000820001088582520008560010906821600082000109222252000856001094322160008200010959325200085600109796216000820001099572520008560011016021600082000110321252000856001105242160008200011068525200085600110895216000820001110492520008560011125921600082000111413252000856001116232160008200011178425200085600111987216000820001121482520008560011235121600082000112512252000856001127222160008200011287625200085600113086216000820001132402520008560011345021600082000113583252000856001138212160008200011394725200085600114185216000820001143112520008560011454921600082000114682252000856001149202160008200011504625200085600115284216000820001154102520008560011564821600082000115774252000856001160122160008200011613825200085600116376216000820001165022520008560011674021600082000116873252000856001171112160008200011723725200085600117475216000820001176012520008560011783921600082000117965252000856001182032160008200011832925200085600118567216000820001187002520008560011893821600082000119064252000856001193022160008200011942825200085600119666216000820001197922520008560012003021600082000120156252000856001203942160008200012052025200085600120758216000820001208912520008560012112921600082000121255252000856001214932160008200012161925200085600121857216000820001219832520008560012222121600082000122347252000856001225852160008200012271825200085600122956216000820001230822520008560012332021600082000123446252000856001236842160008200012381025200085600124048216000820001241742520008560012441221600082000124538252000856001247762160008200012490925200085600125147216000820001252732520008560012551121600082000125637252000856001258752160008200012600125200085600126239216000820001263652520008560012660321600082000126729252000856001269672160008200012710025200085600127338216000820001274642520008560012770221600082000127828252000856001280662160008200012819225200085600128430216000820001285562520008560012879421600082000128927252000856001291652160008200012929125200085600129529216000820001296552520008560012989321600082000130019252000856001302572160008200013038325200085600130621216000820001307472520008560013098521600082000131118252000856001313562160008200013148225200085600131720216000820001318462520008560013208421600082000132210252000856001324482160008200013257425200085600132812216000820001329452520008560013318321600082000133309252000856001335472160008200013367325200085600133911216000820001340372520008560013427521600082000134401252000856001346392160008200013476525200085600135003216000820001351362520008560013537421600082000135500252000856001357382160008200013586425200085600136102216000820001362282520008560013646621600082000136592252000856001368302160008200013695625200085600137194216000820001373272520008560013756521600082000137691252000856001379292160008200013805525200085600138293216000820001384192520008560013865721600082000138783252000856001390212160008200013915425200085600139392216000820001395182520008560013975621600082000139882252000856001401202160008200014024625200085600140484216000820001406102520008560014084821600082000140974252000856001412122160008200014134525200085600141583216000820001417092520008560014194721600082000142073252000856001423112160008200014243725200085600142675216000820001428012520008560014303921600082000143172252000856001434102160008200014353625200085600143774216000820001439002520008560014413821600082000144264252000856001445022160008200014462825200085600144866216000820001449922520008560014523021600082000145363252000856001456012160008200014572725200085600145965216000820001460912520008560014632921600082000146455252000856001466932160008200014681925200085600147057216000820001471832520008560014742121600082000">>,
       <<(0 - 1521), "0804170872110207908055008721100000080739072001036000809010720010000008108907200103600081279072001000000814600720010360008164307200100000081824072001036000820350720010000008219507200103600082378072001000000825520720010360008274807200100000082944072001036000830910720010000008330107200103600083462072001000000836720720010360008384007200100000084036072001036000842040720010000008439307200103600084568072001000000847710720010360008493907200100000085135072001036000853030720010000008549207200103600085667072001000000858630720010360008603107200100000086227072001036000863950720010000008658407200103600086766072001000000869620720010360008713007200100000087319072001036000874940720010000008769007200103600087858072001000000880540720010360008822207200100000088411072001036000885860720010000008878207200103600088999072001000000890970720010360009151207200100000091673072001036000919040720010000009207207200103600092268072001000000924220720010360009263207200100000092800072001036000929890720010000009316407200103600093353072001000000935350720010360009372407200100000093899072001036000940670720010000009425607200103600094431072001000000946270720010360009479507200100000094998072001036000951660720010000009535507200103600095530072001000000957260720010360009589407200100000096090072001036000962580720010000009644707200103600096622072001000000967970720010360009701407200100000097161072001036000973780720010000009753207200103600097742072001000000978890720010360009810607200100000098253072001036000984700720010000009861707200103600098834072001000000989810720010360009920507200100000099317072001036001006680720010000010080807200103600101032072001000001011720720010360010139607200100000101536072001036001017600720010000010190007200103600102124072001000001022710720010360010248807200100000102635072001036001028520720010000010299907200103600103223072001000001033630720010360010358707200100000103727072001036001039510720010000010410503600103600104315036001000001044690360010360010467903600100000104833036001036001050430360010000010519703600103600105414036001000001055680360010360010577803600100000105932036001036001061420360010000010629603600103600106506036001000001066600360010360010687003600100000107024036001036001072410360010000010738803600103600107605036001000001077590360010360010796903600100000108123036001036001083330360010000010848703600103600108697036001000001088510360010360010906103600100000109215036001036001094250360010000010958603600103600109796036001000001099500360010360011016003600100000110314036001036001105240360010000011067803600103600110895036001000001110420360010360011125903600100000111406036001036001116230360010000011177703600103600111987036001000001121410360010360011235103600100000112505036001036001127220360010000011286903600103600113086036001000001132330360010360011345003600100000113597036001036001138140360010000011396803600103600114178036001000001143320360010360011454203600100000114696036001036001149130360010000011506003600103600115277036001000001154240360010360011564103600100000115795036001036001160050360010000011615903600103600116369036001000001165230360010360011673303600100000116887036001036001171040360010000011725103600103600117468036001000001176150360010360011783203600100000117986036001036001181960360010000011835003600103600118560036001000001187140360010360011893103600100000119078036001036001192950360010000011944203600103600119659036001000001198130360010360012002303600100000120177036001036001203870360010000012054103600103600120751036001000001209050360010360012112203600100000121269036001036001214860360010000012163303600103600121850036001000001220040360010360012221403600100000122368036001036001225780360010000012273203600103600122949036001000001230960360010360012331303600100000123460036001036001236770360010000012382403600103600124041036001000001241950360010360012440503600100000124559036001036001247690360010000012492303600103600125140036001000001252870360010360012550403600100000125651036001036001258680360010000012602203600103600126232036001000001263860360010360012659603600100000126750036001036001269600360010000012711403600103600127331036001000001274780360010360012769503600100000127842036001036001280590360010000012821303600103600128423036001000001285770360010360012878703600100000128941036001036001291580360010000012930503600103600129522036001000001296690360010360012988603600100000130040036001036001302500360010000013040403600103600130614036001000001307680360010360013097803600100000131132036001036001313490360010000013149603600103600131713036001000001318600360010360013207703600100000132231036001036001324410360010000013259503600103600132805036001000001329590360010360013317603600100000133323036001036001335400360010000013368703600103600133904036001000001340510360010360013426803600100000134422036001036001346320360010000013478603600103600134996036001000001351500360010360013536703600100000135514036001036001357310360010000013587803600103600136095036001000001362490360010360013645903600100000136613036001036001368230360010000013697703600103600137187036001000001373410360010360013755803600100000137705036001036001379220360010000013806903600103600138286036001000001384400360010360013865003600100000138804036001036001390140360010000013916803600103600139385036001000001395320360010360013974903600100000139896036001036001401130360010000014026703600103600140477036001000001406310360010360014084103600100000140995036001036001412050360010000014135903600103600141576036001000001417230360010360014194003600100000142087036001036001423040360010000014245803600103600142668036001000001428220360010360014303203600100000143186036001036001434030360010000014355003600103600143767036001000001439140360010360014413103600100000144278036001036001444950360010000014464903600103600144859036001000001450130360010360014522303600100000145377036001036001455940360010000014574103600103600145958036001000001461050360010360014632203600100000146476036001036001466860360010000014684003600103600147050036001000001472040360010360014741403600100000">>,
       <<0, "">>,
       <<(0 - 3600), "">>,
       <<(0 - 36000), "">>,
       <<(0 - 39600), "">>,
       <<(0 - 43200), "">>,
       <<(0 - 7200), "">>,
       <<(0 - 10800), "">>,
       <<(0 - 14400), "">>,
       <<(0 - 21600), "">>,
       <<(0 - 25200), "">>,
       <<(0 - 28800), "">>,
       <<(0 - 32400), "">>,
       <<3600, "">>,
       <<36000, "">>,
       <<39600, "">>,
       <<43200, "">>,
       <<46800, "">>,
       <<50400, "">>,
       <<7200, "">>,
       <<10800, "">>,
       <<14400, "">>,
       <<18000, "">>,
       <<21600, "">>,
       <<25200, "">>,
       <<28800, "">>,
       <<32400, "">>,
       <<1172, "080396852281047720805498162810117208074706028104772080901060281011720810970602810477208127906028101172081468060281047720816430602810117208183206028104772082007060281011720821960602810477208237106028101172082552060281047720827480602810117208298406028104772083112060281011720832870602810477208347606028101172083719060281047720838400602810117208406306028104772084204060281011720844280602810477208456806028101172084794060281047720849390602810117208515906028104772085303060281011720855240602810477208566706028101172085889060281047720860310602810117208626206028104772086395060281011720866200602810477208676606028101172086985060281047720871300602810117208735006028104772087494060281011720877160602810477208785806028101172088088060281047720881278162810480008822206000101200088446060001048000885860600010120008881106000104800088957060001012000891778520010720009007803600103600090225036001072000904140360010360009059603600107200090778036001036000909600360010720009112703600103600102649036001072001028240360010360010301303600107200103195036001036001033770360010720010355903600103600103748036001072001039230360010360010410503600107200104287036001036001044690360010720010465103600103600104833036001072001050150360010360010519703600107200105386036001036001055680360010720010575003600103600105932036001072001061140360010360010629603600107200106478036001036001066600360010720010684203600103600107024036001072001072060360010360010738803600107200107577036001036001077590360010720010794103600103600108123036001072001083050360010360010848703600107200108669036001036001088510360010720010903303600103600109215036001072001093970360010360010958603600107200109796036001036001099500360010720011016003600103600110314036001072001105240360010360011067803600107200110895036001036001110420360010720011125903600103600111406036001072001116230360010360011177703600107200111987036001036001121410360010720011235103600103600112505036001072001127220360010360011286903600107200113086036001036001132330360010720011345003600103600113597036001072001138140360010360011396803600107200114178036001036001143320360010720011454203600103600114696036001072001149130360010360011506003600107200115277036001036001154240360010720011564103600103600115795036001072001160050360010360011615903600107200116369036001036001165230360010720011673303600103600116887036001072001171040360010360011725103600107200117468036001036001176150360010720011783203600103600117986036001072001181960360010360011835003600107200118560036001036001187140360010720011893103600103600119078036001072001192950360010360011944203600107200119659036001036001198130360010720012002303600103600120177036001072001203870360010360012054103600107200120751036001036001209050360010720012112203600103600121269036001072001214860360010360012163303600107200121850036001036001220040360010720012221403600103600122368036001072001225780360010360012273203600107200122949036001036001230960360010720012331303600103600123460036001072001236770360010360012382403600107200124041036001036001241950360010720012440503600103600124559036001072001247690360010360012492303600107200125140036001036001252870360010720012550403600103600125651036001072001258680360010360012602203600107200126232036001036001263860360010720012659603600103600126750036001072001269600360010360012711403600107200127331036001036001274780360010720012769503600103600127842036001072001280590360010360012821303600107200128423036001036001285770360010720012878703600103600128941036001072001291580360010360012930503600107200129522036001036001296690360010720012988603600103600130040036001072001302500360010360013040403600107200130614036001036001307680360010720013097803600103600131132036001072001313490360010360013149603600107200131713036001036001318600360010720013207703600103600132231036001072001324410360010360013259503600107200132805036001036001329590360010720013317603600103600133323036001072001335400360010360013368703600107200133904036001036001340510360010720013426803600103600134422036001072001346320360010360013478603600107200134996036001036001351500360010720013536703600103600135514036001072001357310360010360013587803600107200136095036001036001362490360010720013645903600103600136613036001072001368230360010360013697703600107200137187036001036001373410360010720013755803600103600137705036001072001379220360010360013806903600107200138286036001036001384400360010720013865003600103600138804036001072001390140360010360013916803600107200139385036001036001395320360010720013974903600103600139896036001072001401130360010360014026703600107200140477036001036001406310360010720014084103600103600140995036001072001412050360010360014135903600107200141576036001036001417230360010720014194003600103600142087036001072001423040360010360014245803600107200142668036001036001428220360010720014303203600103600143186036001072001434030360010360014355003600107200143767036001036001439140360010720014413103600103600144278036001072001444950360010360014464903600107200144859036001036001450130360010720014522303600103600145377036001072001455940360010360014574103600107200145958036001036001461050360010720014632203600103600146476036001072001466860360010360014684003600107200147050036001036001472040360010720014741403600103600">>,
       <<364, "07479786036100000091506000001036001055680360010720010575003600103600105932036001072001061140360010360010629603600107200106478036001036001066600360010720010684203600103600107024036001072001072060360010360010738803600107200107577036001036001077590360010720010794103600103600108123036001072001083050360010360010848703600107200108669036001036001088510360010720010903303600103600109215036001072001093970360010360010958603600107200109796036001036001099500360010720011016003600103600110314036001072001105240360010360011067803600107200110895036001036001110420360010720011125903600103600111406036001072001116230360010360011177703600107200111987036001036001121410360010720011235103600103600112505036001072001127220360010360011286903600107200113086036001036001132330360010720011345003600103600113597036001072001138140360010360011396803600107200114178036001036001143320360010720011454203600103600114696036001072001149130360010360011506003600107200115277036001036001154240360010720011564103600103600115795036001072001160050360010360011615903600107200116369036001036001165230360010720011673303600103600116887036001072001171040360010360011725103600107200117468036001036001176150360010720011783203600103600117986036001072001181960360010360011835003600107200118560036001036001187140360010720011893103600103600119078036001072001192950360010360011944203600107200119659036001036001198130360010720012002303600103600120177036001072001203870360010360012054103600107200120751036001036001209050360010720012112203600103600121269036001072001214860360010360012163303600107200121850036001036001220040360010720012221403600103600122368036001072001225780360010360012273203600107200122949036001036001230960360010720012331303600103600123460036001072001236770360010360012382403600107200124041036001036001241950360010720012440503600103600124559036001072001247690360010360012492303600107200125140036001036001252870360010720012550403600103600125651036001072001258680360010360012602203600107200126232036001036001263860360010720012659603600103600126750036001072001269600360010360012711403600107200127331036001036001274780360010720012769503600103600127842036001072001280590360010360012821303600107200128423036001036001285770360010720012878703600103600128941036001072001291580360010360012930503600107200129522036001036001296690360010720012988603600103600130040036001072001302500360010360013040403600107200130614036001036001307680360010720013097803600103600131132036001072001313490360010360013149603600107200131713036001036001318600360010720013207703600103600132231036001072001324410360010360013259503600107200132805036001036001329590360010720013317603600103600133323036001072001335400360010360013368703600107200133904036001036001340510360010720013426803600103600134422036001072001346320360010360013478603600107200134996036001036001351500360010720013536703600103600135514036001072001357310360010360013587803600107200136095036001036001362490360010720013645903600103600136613036001072001368230360010360013697703600107200137187036001036001373410360010720013755803600103600137705036001072001379220360010360013806903600107200138286036001036001384400360010720013865003600103600138804036001072001390140360010360013916803600107200139385036001036001395320360010720013974903600103600139896036001072001401130360010360014026703600107200140477036001036001406310360010720014084103600103600140995036001072001412050360010360014135903600107200141576036001036001417230360010720014194003600103600142087036001072001423040360010360014245803600107200142668036001036001428220360010720014303203600103600143186036001072001434030360010360014355003600107200143767036001036001439140360010720014413103600103600144278036001072001444950360010360014464903600107200144859036001036001450130360010720014522303600103600145377036001072001455940360010360014574103600107200145958036001036001461050360010720014632203600103600146476036001072001466860360010360014684003600107200147050036001036001472040360010720014741403600103600">>,
       <<11532, "0833187486811080008556075600114400104107720001180001042906840011440010447272000118000104655684001144001048377200011800010502068400114400105203720001180001053857920011440010556779200118000105749792001144001059317920011800010611379200114400106295792001180001064777920011440010665979200118000106841792001144001072058280011080010738782800114400107576828001108001077588280011440010830482800110800108486828001144001086688280011080010885082800114400109032828001108001092148280011440010939682800110800109585828001144001097958280011080010994982800114400110159828001108001103138280011440011052382800110800110677828001144001108948280011080011104182800114400111258828001108001114058280011440011162282800110800111776828001144001119868280011080011214082800114400112350828001108001125048280011440011272182800110800112868828001144001130858280011080011323282800114400113449828001108001135968280011440011381382800110800113967828001144001141778280011080011433182800114400114541828001108001146958280011440011491282800110800115059828001144001163687920011080011688682800114400">>,
       <<5692, "080484807681072000863077920011080008636375600107200089503792001108000895267560010720009007803600103600090225828001072000904137920010360009059682800107200093606792001108000937307560010720010192679200110800102154792001072001022920000011080010247400000107200102649000001108001028250000010720010301300000110800103188036001072001033772520011080010355782800107200103742792001108001039227560010720010410503600110800104287036001072001044690360011080010465103600107200104833036001108001050150360010720010519703600110800105386036001072001055680360011080010575003600107200105932036001108001061140360010720010629603600110800106478036001072001066600360011080010684203600107200107024036001108001072060360010720010738803600110800107577036001072001077590360011080010794103600107200108123036001108001083050360010720010848703600110800108669036001072001088510360011080010903303600107200109215036001108001093970360010720010958603600110800109796036001072001099500360011080011016003600107200110314036001108001105240360010720011067803600110800110895036001072001110420360011080011125903600107200111406036001108001116230360010720011177703600110800111987036001072001121410360011080011235103600107200112505036001108001127220360010720011286903600110800113086036001072001132330360011080011345003600107200113597036001108001138140360010720011396803600110800114178036001072001143320360011080011454203600107200114696036001108001149130360010720011506003600110800115277036001072001154240360011080011564103600107200115795036001108001160050360010720011615903600110800116369036001072001165230360011080011673303600107200116887036001108001171040360010720011725103600110800117468036001072001176150360011080011783203600107200117986036001108001181960360010720011835003600110800118560036001072001187140360011080011893103600107200119078036001108001192950360010720011944203600110800119659036001072001198130360011080012002303600107200120177036001108001203870360010720012054103600110800120751036001072001209050360011080012112203600107200121269036001108001214860360010720012163303600110800121850036001072001220040360011080012221403600107200122368036001108001225780360010720012273203600110800122949036001072001230960360011080012331303600107200123460036001108001236770360010720012382403600110800124041036001072001241950360011080012440503600107200124559036001108001247690360010720012492303600110800125140036001072001252870360011080012550403600107200125651036001108001258680360010720012602203600110800126232036001072001263860360011080012659603600107200126750036001108001269600360010720012711403600110800127331036001072001274780360011080012769503600107200127842036001108001280590360010720012821303600110800128423036001072001285770360011080012878703600107200128941036001108001291580360010720012930503600110800129522036001072001296690360011080012988603600107200130040036001108001302500360010720013040403600110800130614036001072001307680360011080013097803600107200131132036001108001313490360010720013149603600110800131713036001072001318600360011080013207703600107200132231036001108001324410360010720013259503600110800132805036001072001329590360011080013317603600107200133323036001108001335400360010720013368703600110800133904036001072001340510360011080013426803600107200134422036001108001346320360010720013478603600110800134996036001072001351500360011080013536703600107200135514036001108001357310360010720013587803600110800136095036001072001362490360011080013645903600107200136613036001108001368230360010720013697703600110800137187036001072001373410360011080013755803600107200137705036001108001379220360010720013806903600110800138286036001072001384400360011080013865003600107200138804036001108001390140360010720013916803600110800139385036001072001395320360011080013974903600107200139896036001108001401130360010720014026703600110800140477036001072001406310360011080014084103600107200140995036001108001412050360010720014135903600110800141576036001072001417230360011080014194003600107200142087036001108001423040360010720014245803600110800142668036001072001428220360011080014303203600107200143186036001108001434030360010720014355003600110800143767036001072001439140360011080014413103600107200144278036001108001444950360010720014464903600110800144859036001072001450130360011080014522303600107200145377036001108001455940360010720014574103600110800145958036001072001461050360011080014632203600107200146476036001108001466860360010720014684003600110800147050036001072001472040360011080014741403600107200">>,
       <<(0 - 75), "0554090007510000008041707200103600080550072001000000807390720010360008090107200100000081089072001036000812790720010000008146007200103600081643072001000000818240720010360008203507200100000082195072001036000823780720010000008255207200103600082748072001000000829440720010360008309107200100000083301072001036000834620720010000008367207200103600083840072001000000840360720010360008420407200100000084393072001036000845680720010000008477107200103600084939072001000000851350720010360008530307200100000085492072001036000856670720010000008586307200103600086031072001000000862270720010360008639507200100000086584072001036000867660720010000008696207200103600087130072001000000873190720010360008749407200100000087690072001036000878580720010000008805407200103600088222072001000000884110720010360008858607200100000088782072001036000889990720010000008909707200103600089531036001072000896290360010360008986703600107200089993036001036000902310360010720009036403600103600090595036001072000907630360010360009096003600107200091064036001036000911480720010000009133707200103600091512072001000000916730720010360009170103600107200091820036001036000919040720010000009203707200103600092268072001000000924220720010360009263207200100000092800072001036000929890720010000009316407200103600093353072001000000935350720010360009372407200100000093899072001036000940670720010000009425607200103600094431072001000000946270720010360009479507200100000094998072001036000951660720010000009535507200103600095530072001000000957260720010360009589407200100000096090072001036000962580720010000009644707200103600096622072001000000967970720010360009701407200100000097161072001036000973780720010000009753207200103600097742072001000000978890720010360009810607200100000098253072001036000984700720010000009861707200103600098834072001000000989810720010360009920507200100000099317072001036001006680720010000010080807200103600101032072001000001011720720010360010139607200100000101536072001036001017600720010000010190007200103600102124072001000001022710720010360010248807200100000102635072001036001028520720010000010299907200103600103223072001000001033630720010360010358707200100000103727072001036001039510720010000010410503600103600104315036001000001044690360010360010467903600100000104833036001036001050430360010000010519703600103600105414036001000001055680360010360010577803600100000105932036001036001061420360010000010629603600103600106506036001000001066600360010360010687003600100000107024036001036001072410360010000010738803600103600107605036001000001077590360010360010796903600100000108123036001036001083330360010000010848703600103600108697036001000001088510360010360010906103600100000109215036001036001094250360010000010958603600103600109796036001000001099500360010360011016003600100000110314036001036001105240360010000011067803600103600110895036001000001110420360010360011125903600100000111406036001036001116230360010000011177703600103600111987036001000001121410360010360011235103600100000112505036001036001127220360010000011286903600103600113086036001000001132330360010360011345003600100000113597036001036001138140360010000011396803600103600114178036001000001143320360010360011454203600100000114696036001036001149130360010000011506003600103600115277036001000001154240360010360011564103600100000115795036001036001160050360010000011615903600103600116369036001000001165230360010360011673303600100000116887036001036001171040360010000011725103600103600117468036001000001176150360010360011783203600100000117986036001036001181960360010000011835003600103600118560036001000001187140360010360011893103600100000119078036001036001192950360010000011944203600103600119659036001000001198130360010360012002303600100000120177036001036001203870360010000012054103600103600120751036001000001209050360010360012112203600100000121269036001036001214860360010000012163303600103600121850036001000001220040360010360012221403600100000122368036001036001225780360010000012273203600103600122949036001000001230960360010360012331303600100000123460036001036001236770360010000012382403600103600124041036001000001241950360010360012440503600100000124559036001036001247690360010000012492303600103600125140036001000001252870360010360012550403600100000125651036001036001258680360010000012602203600103600126232036001000001263860360010360012659603600100000126750036001036001269600360010000012711403600103600127331036001000001274780360010360012769503600100000127842036001036001280590360010000012821303600103600128423036001000001285770360010360012878703600100000128941036001036001291580360010000012930503600103600129522036001000001296690360010360012988603600100000130040036001036001302500360010000013040403600103600130614036001000001307680360010360013097803600100000131132036001036001313490360010000013149603600103600131713036001000001318600360010360013207703600100000132231036001036001324410360010000013259503600103600132805036001000001329590360010360013317603600100000133323036001036001335400360010000013368703600103600133904036001000001340510360010360013426803600100000134422036001036001346320360010000013478603600103600134996036001000001351500360010360013536703600100000135514036001036001357310360010000013587803600103600136095036001000001362490360010360013645903600100000136613036001036001368230360010000013697703600103600137187036001000001373410360010360013755803600100000137705036001036001379220360010000013806903600103600138286036001000001384400360010360013865003600100000138804036001036001390140360010000013916803600103600139385036001000001395320360010360013974903600100000139896036001036001401130360010000014026703600103600140477036001000001406310360010360014084103600100000140995036001036001412050360010000014135903600103600141576036001000001417230360010360014194003600100000142087036001036001423040360010000014245803600103600142668036001000001428220360010360014303203600100000143186036001036001434030360010000014355003600103600143767036001000001439140360010360014413103600100000144278036001036001444950360010000014464903600103600144859036001000001450130360010360014522303600100000145377036001036001455940360010000014574103600103600145958036001000001461050360010360014632203600100000146476036001036001466860360010000014684003600103600147050036001000001472040360010360014741403600100000">>,
       <<4920, "068588814801036000895157920010720009007803600103600090225036001072000904140360010360009059603600107200090778036001036000909960360010720009112703600103600104833036001072001050150360010360010519703600107200105386036001036001055680360010720010575003600103600105932036001072001061140360010360010629603600107200106478036001036001066600360010720010684203600103600107024036001072001072060360010360010738803600107200107577036001036001077590360010720010794103600103600108123036001072001083050360010360010848703600107200108669036001036001088510360010720010903303600103600109215036001072001093970360010360010958603600107200109796036001036001099500360010720011016003600103600110314036001072001105240360010360011067803600107200110895036001036001110420360010720011125903600103600111406036001072001116230360010360011177703600107200111987036001036001121410360010720011235103600103600112505036001072001127220360010360011286903600107200113086036001036001132330360010720011345003600103600113597036001072001138140360010360011396803600107200114178036001036001143320360010720011454203600103600114696036001072001149130360010360011506003600107200115277036001036001154240360010720011564103600103600115795036001072001160050360010360011615903600107200116369036001036001165230360010720011673303600103600116887036001072001171040360010360011725103600107200117468036001036001176150360010720011783203600103600117986036001072001181960360010360011835003600107200118560036001036001187140360010720011893103600103600119078036001072001192950360010360011944203600107200119659036001036001198130360010720012002303600103600120177036001072001203870360010360012054103600107200120751036001036001209050360010720012112203600103600121269036001072001214860360010360012163303600107200121850036001036001220040360010720012221403600103600122368036001072001225780360010360012273203600107200122949036001036001230960360010720012331303600103600123460036001072001236770360010360012382403600107200124041036001036001241950360010720012440503600103600124559036001072001247690360010360012492303600107200125140036001036001252870360010720012550403600103600125651036001072001258680360010360012602203600107200126232036001036001263860360010720012659603600103600126750036001072001269600360010360012711403600107200127331036001036001274780360010720012769503600103600127842036001072001280590360010360012821303600107200128423036001036001285770360010720012878703600103600128941036001072001291580360010360012930503600107200129522036001036001296690360010720012988603600103600130040036001072001302500360010360013040403600107200130614036001036001307680360010720013097803600103600131132036001072001313490360010360013149603600107200131713036001036001318600360010720013207703600103600132231036001072001324410360010360013259503600107200132805036001036001329590360010720013317603600103600133323036001072001335400360010360013368703600107200133904036001036001340510360010720013426803600103600134422036001072001346320360010360013478603600107200134996036001036001351500360010720013536703600103600135514036001072001357310360010360013587803600107200136095036001036001362490360010720013645903600103600136613036001072001368230360010360013697703600107200137187036001036001373410360010720013755803600103600137705036001072001379220360010360013806903600107200138286036001036001384400360010720013865003600103600138804036001072001390140360010360013916803600107200139385036001036001395320360010720013974903600103600139896036001072001401130360010360014026703600107200140477036001036001406310360010720014084103600103600140995036001072001412050360010360014135903600107200141576036001036001417230360010720014194003600103600142087036001072001423040360010360014245803600107200142668036001036001428220360010720014303203600103600143186036001072001434030360010360014355003600107200143767036001036001439140360010720014413103600103600144278036001072001444950360010360014464903600107200144859036001036001450130360010720014522303600103600145377036001072001455940360010360014574103600107200145958036001036001461050360010720014632203600103600146476036001072001466860360010360014684003600107200147050036001036001472040360010720014741403600103600">>,
       <<3464, "071418829361036000803967920010720008054982800103600080747036001072000809010360010360008111103600107200081265036001036000891330360010720009007803600103600090225036001072000904140360010360009059603600107200090778036001036000909600360010720009114203600103600091359036001072000915120360010360009156807200100000091652072001036000917080360010720009187603600103600092072036001072000922400360010360009242803600107200092604036001036001033770360010720010355903600103600103748036001072001039230360010360010410503600107200104287036001036001044690360010720010465103600103600104833036001072001050150360010360010519703600107200105386036001036001055680360010720010575003600103600105932036001072001061140360010360010629603600107200106478036001036001066600360010720010684203600103600107024036001072001072060360010360010738803600107200107577036001036001077590360010720010794103600103600108123036001072001083050360010360010848703600107200108669036001036001088510360010720010903303600103600109215036001072001093970360010360010958603600107200109796036001036001099500360010720011016003600103600110314036001072001105240360010360011067803600107200110895036001036001110420360010720011125903600103600111406036001072001116230360010360011177703600107200111987036001036001121410360010720011235103600103600112505036001072001127220360010360011286903600107200113086036001036001132330360010720011345003600103600113597036001072001138140360010360011396803600107200114178036001036001143320360010720011454203600103600114696036001072001149130360010360011506003600107200115277036001036001154240360010720011564103600103600115795036001072001160050360010360011615903600107200116369036001036001165230360010720011673303600103600116887036001072001171040360010360011725103600107200117468036001036001176150360010720011783203600103600117986036001072001181960360010360011835003600107200118560036001036001187140360010720011893103600103600119078036001072001192950360010360011944203600107200119659036001036001198130360010720012002303600103600120177036001072001203870360010360012054103600107200120751036001036001209050360010720012112203600103600121269036001072001214860360010360012163303600107200121850036001036001220040360010720012221403600103600122368036001072001225780360010360012273203600107200122949036001036001230960360010720012331303600103600123460036001072001236770360010360012382403600107200124041036001036001241950360010720012440503600103600124559036001072001247690360010360012492303600107200125140036001036001252870360010720012550403600103600125651036001072001258680360010360012602203600107200126232036001036001263860360010720012659603600103600126750036001072001269600360010360012711403600107200127331036001036001274780360010720012769503600103600127842036001072001280590360010360012821303600107200128423036001036001285770360010720012878703600103600128941036001072001291580360010360012930503600107200129522036001036001296690360010720012988603600103600130040036001072001302500360010360013040403600107200130614036001036001307680360010720013097803600103600131132036001072001313490360010360013149603600107200131713036001036001318600360010720013207703600103600132231036001072001324410360010360013259503600107200132805036001036001329590360010720013317603600103600133323036001072001335400360010360013368703600107200133904036001036001340510360010720013426803600103600134422036001072001346320360010360013478603600107200134996036001036001351500360010720013536703600103600135514036001072001357310360010360013587803600107200136095036001036001362490360010720013645903600103600136613036001072001368230360010360013697703600107200137187036001036001373410360010720013755803600103600137705036001072001379220360010360013806903600107200138286036001036001384400360010720013865003600103600138804036001072001390140360010360013916803600107200139385036001036001395320360010720013974903600103600139896036001072001401130360010360014026703600107200140477036001036001406310360010720014084103600103600140995036001072001412050360010360014135903600107200141576036001036001417230360010720014194003600103600142087036001072001423040360010360014245803600107200142668036001036001428220360010720014303203600103600143186036001072001434030360010360014355003600107200143767036001036001439140360010720014413103600103600144278036001072001444950360010360014464903600107200144859036001036001450130360010720014522303600103600145377036001072001455940360010360014574103600107200145958036001036001461050360010720014632203600103600146476036001072001466860360010360014684003600107200147050036001036001472040360010720014741403600103600">>,
       <<1050, "0716320000010000007985700000103600080396828001072000805498280010360008074703600107200080901036001036000811110360010720008126503600103600081321396001000000814318280010360008164882800100000081781828001036000820338280010000008217582800103600082400828001000000825518280010360008274782800100000082943828001036000831118280010000008328682800103600083475828001000000836578280010360008383982800100000084035828001036000842038280010000008439282800103600084567828001000000847638280010360008493907200100000085135072001036000853030720010000008549207200103600085667072001000000858630720010360008603107200100000086213072001036000863950720010000008657007200103600086766072001000000869480720010360008713007200100000087305072001036000874940720010000008769007200103600087858072001000000880400720010360008822207200100000088397072001036000885860720010000008878207200103600088999072001000000890970720010360008918207200107200090078036001036000902250360010720009041403600103600090596036001072000907630360010360009096003600107200091127036001036000913720360010720009151303600103600102649036001072001028240360010360010301303600107200103195036001036001033770360010720010355903600103600103748036001072001039230360010360010410503600107200104287036001036001044690360010720010465103600103600104833036001072001050150360010360010519703600107200105386036001036001055680360010720010575003600103600105932036001072001061140360010360010629603600107200106478036001036001066600360010720010684203600103600107024036001072001072060360010360010738803600107200107577036001036001077590360010720010794103600103600108123036001072001083050360010360010848703600107200108669036001036001088510360010720010903303600103600109215036001072001093970360010360010958603600107200109796036001036001099500360010720011016003600103600110314036001072001105240360010360011067803600107200110895036001036001110420360010720011125903600103600111406036001072001116230360010360011177703600107200111987036001036001121410360010720011235103600103600112505036001072001127220360010360011286903600107200113086036001036001132330360010720011345003600103600113597036001072001138140360010360011396803600107200114178036001036001143320360010720011454203600103600114696036001072001149130360010360011506003600107200115277036001036001154240360010720011564103600103600115795036001072001160050360010360011615903600107200116369036001036001165230360010720011673303600103600116887036001072001171040360010360011725103600107200117468036001036001176150360010720011783203600103600117986036001072001181960360010360011835003600107200118560036001036001187140360010720011893103600103600119078036001072001192950360010360011944203600107200119659036001036001198130360010720012002303600103600120177036001072001203870360010360012054103600107200120751036001036001209050360010720012112203600103600121269036001072001214860360010360012163303600107200121850036001036001220040360010720012221403600103600122368036001072001225780360010360012273203600107200122949036001036001230960360010720012331303600103600123460036001072001236770360010360012382403600107200124041036001036001241950360010720012440503600103600124559036001072001247690360010360012492303600107200125140036001036001252870360010720012550403600103600125651036001072001258680360010360012602203600107200126232036001036001263860360010720012659603600103600126750036001072001269600360010360012711403600107200127331036001036001274780360010720012769503600103600127842036001072001280590360010360012821303600107200128423036001036001285770360010720012878703600103600128941036001072001291580360010360012930503600107200129522036001036001296690360010720012988603600103600130040036001072001302500360010360013040403600107200130614036001036001307680360010720013097803600103600131132036001072001313490360010360013149603600107200131713036001036001318600360010720013207703600103600132231036001072001324410360010360013259503600107200132805036001036001329590360010720013317603600103600133323036001072001335400360010360013368703600107200133904036001036001340510360010720013426803600103600134422036001072001346320360010360013478603600107200134996036001036001351500360010720013536703600103600135514036001072001357310360010360013587803600107200136095036001036001362490360010720013645903600103600136613036001072001368230360010360013697703600107200137187036001036001373410360010720013755803600103600137705036001072001379220360010360013806903600107200138286036001036001384400360010720013865003600103600138804036001072001390140360010360013916803600107200139385036001036001395320360010720013974903600103600139896036001072001401130360010360014026703600107200140477036001036001406310360010720014084103600103600140995036001072001412050360010360014135903600107200141576036001036001417230360010720014194003600103600142087036001072001423040360010360014245803600107200142668036001036001428220360010720014303203600103600143186036001072001434030360010360014355003600107200143767036001036001439140360010720014413103600103600144278036001072001444950360010360014464903600107200144859036001036001450130360010720014522303600103600145377036001072001455940360010360014574103600107200145958036001036001461050360010720014632203600103600146476036001072001466860360010360014684003600107200147050036001036001472040360010720014741403600103600">>,
       <<6264, "08595880136107200086260792001108000863947920010720008657679200110800086758792001072000869477920011080008712979200107200087311792001108000874937920010720008767579200110800087857792001072000880397920011080008822179200107200088403792001108000885857920010720008876779200110800088949792001072001034327920011080010355875600107200103747756001108001039227920010720010410500000110800104287000001072001044690000011080010465100000107200104833000001108001050150000010720010519700000110800105386000001072001055680000011080010575000000107200105932000001108001061140000010720010629600000110800106478000001072001066600000011080010684200000107200107024000001108001072060000010720010738800000110800107577000001072001077587920011080010794079200107200108122792001108001083047920010720010848679200110800108668792001072001088507920011080010903275600107200109214792001108001093967560010720010958579200110800109795756001072001099500360011080011016003600107200110314036001108001105240360010720011067803600110800110895036001072001110420360011080011125903600107200111406036001108001116230360010720011177703600110800111987036001072001121410360011080011235103600107200112505036001108001127220360010720011286903600110800113086036001072001132330360011080011345003600107200113597036001108001138140360010720011396803600110800114178036001072001143320360011080011454203600107200114696036001108001149130360010720011506003600110800115277036001072001154240360011080011564103600107200115795036001108001160050360010720011615903600110800116369036001072001165230360011080011673303600107200116887036001108001171040360010720011725103600110800117468036001072001176150360011080011783203600107200117986036001108001181960360010720011835003600110800118560036001072001187140360011080011893103600107200119078036001108001192950360010720011944203600110800119659036001072001198130360011080012002303600107200120177036001108001203870360010720012054103600110800120751036001072001209050360011080012112203600107200121269036001108001214860360010720012163303600110800121850036001072001220040360011080012221403600107200122368036001108001225780360010720012273203600110800122949036001072001230960360011080012331303600107200123460036001108001236770360010720012382403600110800124041036001072001241950360011080012440503600107200124559036001108001247690360010720012492303600110800125140036001072001252870360011080012550403600107200125651036001108001258680360010720012602203600110800126232036001072001263860360011080012659603600107200126750036001108001269600360010720012711403600110800127331036001072001274780360011080012769503600107200127842036001108001280590360010720012821303600110800128423036001072001285770360011080012878703600107200128941036001108001291580360010720012930503600110800129522036001072001296690360011080012988603600107200130040036001108001302500360010720013040403600110800130614036001072001307680360011080013097803600107200131132036001108001313490360010720013149603600110800131713036001072001318600360011080013207703600107200132231036001108001324410360010720013259503600110800132805036001072001329590360011080013317603600107200133323036001108001335400360010720013368703600110800133904036001072001340510360011080013426803600107200134422036001108001346320360010720013478603600110800134996036001072001351500360011080013536703600107200135514036001108001357310360010720013587803600110800136095036001072001362490360011080013645903600107200136613036001108001368230360010720013697703600110800137187036001072001373410360011080013755803600107200137705036001108001379220360010720013806903600110800138286036001072001384400360011080013865003600107200138804036001108001390140360010720013916803600110800139385036001072001395320360011080013974903600107200139896036001108001401130360010720014026703600110800140477036001072001406310360011080014084103600107200140995036001108001412050360010720014135903600110800141576036001072001417230360011080014194003600107200142087036001108001423040360010720014245803600110800142668036001072001428220360011080014303203600107200143186036001108001434030360010720014355003600110800143767036001072001439140360011080014413103600107200144278036001108001444950360010720014464903600110800144859036001072001450130360011080014522303600107200145377036001108001455940360010720014574103600110800145958036001072001461050360011080014632203600107200146476036001108001466860360010720014684003600110800147050036001072001472040360011080014741403600107200">>,
       <<4580, "0710848182010360008039679200107200080549828001036000807470360010720008090103600103600081111036001072000812650360010360008147603600107200081629036001036000818320360010720008200003600103600089504792001072000900780360010360009022503600107200090414036001036000905960360010720009077803600103600090989792001072000911728280010360009132303600107200091513000001036000916940360010720009187603600103600092058036001072000922400360010360009242903600107200092604036001036000942978280010720009443079200103600094662036001072000947950360010360009504003600107200095159036001036000954040360010720009552303600103600103747828001072001039228280010360010410482800107200104286828001036001044688280010720010465082800103600104832828001072001050148280010360010519703600107200105386036001036001055680360010720010575003600103600105932036001072001061140360010360010629603600107200106478036001036001066600360010720010684203600103600107024036001072001072060360010360010738803600107200107577036001036001077590360010720010794103600103600108123036001072001083050360010360010848703600107200108669036001036001088510360010720010903303600103600109215036001072001093970360010360010958603600107200109796036001036001099500360010720011016003600103600110314036001072001105240360010360011067803600107200110895036001036001110420360010720011125903600103600111406036001072001116230360010360011177703600107200111987036001036001121410360010720011235103600103600112505036001072001127220360010360011286903600107200113086036001036001132330360010720011345003600103600113597036001072001138140360010360011396803600107200114178036001036001143320360010720011454203600103600114696036001072001149130360010360011506003600107200115277036001036001154240360010720011564103600103600115795036001072001160050360010360011615903600107200116369036001036001165230360010720011673303600103600116887036001072001171040360010360011725103600107200117468036001036001176150360010720011783203600103600117986036001072001181960360010360011835003600107200118560036001036001187140360010720011893103600103600119078036001072001192950360010360011944203600107200119659036001036001198130360010720012002303600103600120177036001072001203870360010360012054103600107200120751036001036001209050360010720012112203600103600121269036001072001214860360010360012163303600107200121850036001036001220040360010720012221403600103600122368036001072001225780360010360012273203600107200122949036001036001230960360010720012331303600103600123460036001072001236770360010360012382403600107200124041036001036001241950360010720012440503600103600124559036001072001247690360010360012492303600107200125140036001036001252870360010720012550403600103600125651036001072001258680360010360012602203600107200126232036001036001263860360010720012659603600103600126750036001072001269600360010360012711403600107200127331036001036001274780360010720012769503600103600127842036001072001280590360010360012821303600107200128423036001036001285770360010720012878703600103600128941036001072001291580360010360012930503600107200129522036001036001296690360010720012988603600103600130040036001072001302500360010360013040403600107200130614036001036001307680360010720013097803600103600131132036001072001313490360010360013149603600107200131713036001036001318600360010720013207703600103600132231036001072001324410360010360013259503600107200132805036001036001329590360010720013317603600103600133323036001072001335400360010360013368703600107200133904036001036001340510360010720013426803600103600134422036001072001346320360010360013478603600107200134996036001036001351500360010720013536703600103600135514036001072001357310360010360013587803600107200136095036001036001362490360010720013645903600103600136613036001072001368230360010360013697703600107200137187036001036001373410360010720013755803600103600137705036001072001379220360010360013806903600107200138286036001036001384400360010720013865003600103600138804036001072001390140360010360013916803600107200139385036001036001395320360010720013974903600103600139896036001072001401130360010360014026703600107200140477036001036001406310360010720014084103600103600140995036001072001412050360010360014135903600107200141576036001036001417230360010720014194003600103600142087036001072001423040360010360014245803600107200142668036001036001428220360010720014303203600103600143186036001072001434030360010360014355003600107200143767036001036001439140360010720014413103600103600144278036001072001444950360010360014464903600107200144859036001036001450130360010720014522303600103600145377036001072001455940360010360014574103600107200145958036001036001461050360010720014632203600103600146476036001072001466860360010360014684003600107200147050036001036001472040360010720014741403600103600">>,
       <<2048, "05746284352101786072392846141036000895320000010720008968600000103600089896000001072000900500000010360010410503600107200104287036001036001044690360010720010465103600103600104833036001072001050150360010360010519703600107200105386036001036001055680360010720010575003600103600105932036001072001061140360010360010629603600107200106478036001036001066600360010720010684203600103600107024036001072001072060360010360010738803600107200107577036001036001077590360010720010794103600103600108123036001072001083050360010360010848703600107200108669036001036001088510360010720010903303600103600109215036001072001093970360010360010958603600107200109796036001036001099500360010720011016003600103600110314036001072001105240360010360011067803600107200110895036001036001110420360010720011125903600103600111406036001072001116230360010360011177703600107200111987036001036001121410360010720011235103600103600112505036001072001127220360010360011286903600107200113086036001036001132330360010720011345003600103600113597036001072001138140360010360011396803600107200114178036001036001143320360010720011454203600103600114696036001072001149130360010360011506003600107200115277036001036001154240360010720011564103600103600115795036001072001160050360010360011615903600107200116369036001036001165230360010720011673303600103600116887036001072001171040360010360011725103600107200117468036001036001176150360010720011783203600103600117986036001072001181960360010360011835003600107200118560036001036001187140360010720011893103600103600119078036001072001192950360010360011944203600107200119659036001036001198130360010720012002303600103600120177036001072001203870360010360012054103600107200120751036001036001209050360010720012112203600103600121269036001072001214860360010360012163303600107200121850036001036001220040360010720012221403600103600122368036001072001225780360010360012273203600107200122949036001036001230960360010720012331303600103600123460036001072001236770360010360012382403600107200124041036001036001241950360010720012440503600103600124559036001072001247690360010360012492303600107200125140036001036001252870360010720012550403600103600125651036001072001258680360010360012602203600107200126232036001036001263860360010720012659603600103600126750036001072001269600360010360012711403600107200127331036001036001274780360010720012769503600103600127842036001072001280590360010360012821303600107200128423036001036001285770360010720012878703600103600128941036001072001291580360010360012930503600107200129522036001036001296690360010720012988603600103600130040036001072001302500360010360013040403600107200130614036001036001307680360010720013097803600103600131132036001072001313490360010360013149603600107200131713036001036001318600360010720013207703600103600132231036001072001324410360010360013259503600107200132805036001036001329590360010720013317603600103600133323036001072001335400360010360013368703600107200133904036001036001340510360010720013426803600103600134422036001072001346320360010360013478603600107200134996036001036001351500360010720013536703600103600135514036001072001357310360010360013587803600107200136095036001036001362490360010720013645903600103600136613036001072001368230360010360013697703600107200137187036001036001373410360010720013755803600103600137705036001072001379220360010360013806903600107200138286036001036001384400360010720013865003600103600138804036001072001390140360010360013916803600107200139385036001036001395320360010720013974903600103600139896036001072001401130360010360014026703600107200140477036001036001406310360010720014084103600103600140995036001072001412050360010360014135903600107200141576036001036001417230360010720014194003600103600142087036001072001423040360010360014245803600107200142668036001036001428220360010720014303203600103600143186036001072001434030360010360014355003600107200143767036001036001439140360010720014413103600103600144278036001072001444950360010360014464903600107200144859036001036001450130360010720014522303600103600145377036001072001455940360010360014574103600107200145958036001036001461050360010720014632203600103600146476036001072001466860360010360014684003600107200147050036001036001472040360010720014741403600103600">>,
       <<6920, "06712779480106900081051795001062640859588013610720008626079200110800086394792001072000865767920011080008675879200107200086947792001108000871297920010720008731179200110800087493792001072000876757920011080008785779200107200088039792001108000882217920010720008840379200110800088585792001072000887677920011080008894979200107200089268792001108000896047560010720009007803600103600090225036001072000904140360010360009059603600107200090738792001108001041077560011440010429072000110800104472756001144001046557200011080010483775600114400105020720001108001052037560011440010538582800110800105567828001144001057498280011080010593182800114400106113828001108001062958280011440010647782800110800106659828001144001068418280011080010702382800114400107205828001108001073878280011440010742979200110800107577000001072001077590000011080010794100000107200108122792001108001083047560010720010848679200110800108668756001072001088507920011080010903275600107200109214792001108001093967560010720010958579200110800109795756001072001099500000011080011016000000107200110314000001108001105240000010720011067800000110800110895000001072001110420000011080011125900000107200111406000001108001116230000010720011177700000110800111987000001072001121410000011080011235100000107200112505000001108001127220000010720011286900000110800113086000001072001132330000011080011345000000107200113597000001108001138140000010720011396800000110800114178000001072001143320000011080011454200000107200114696000001108001149130000010720011506000000110800115277000001072001154240000011080011564100000107200115795000001108001160050000010720011615900000110800116369000001072001165230000011080011673300000107200116887000001108001171040000010720011725100000110800117468000001072001176150000011080011783200000107200117986000001108001181960000010720011835000000110800118560000001072001187140000011080011893100000107200119078000001108001192950000010720011944200000110800119659000001072001198130000011080012002300000107200120177000001108001203870000010720012054100000110800120751000001072001209050000011080012112200000107200121269000001108001214860000010720012163300000110800121850000001072001220040000011080012221400000107200122368000001108001225780000010720012273200000110800122949000001072001230960000011080012331300000107200123460000001108001236770000010720012382400000110800124041000001072001241950000011080012440500000107200124559000001108001247690000010720012492300000110800125140000001072001252870000011080012550400000107200125651000001108001258680000010720012602200000110800126232000001072001263860000011080012659600000107200126750000001108001269600000010720012711400000110800127331000001072001274780000011080012769500000107200127842000001108001280590000010720012821300000110800128423000001072001285770000011080012878700000107200128941000001108001291580000010720012930500000110800129522000001072001296690000011080012988600000107200130040000001108001302500000010720013040400000110800130614000001072001307680000011080013097800000107200131132000001108001313490000010720013149600000110800131713000001072001318600000011080013207700000107200132231000001108001324410000010720013259500000110800132805000001072001329590000011080013317600000107200133323000001108001335400000010720013368700000110800133904000001072001340510000011080013426800000107200134422000001108001346320000010720013478600000110800134996000001072001351500000011080013536700000107200135514000001108001357310000010720013587800000110800136095000001072001362490000011080013645900000107200136613000001108001368230000010720013697700000110800137187000001072001373410000011080013755800000107200137705000001108001379220000010720013806900000110800138286000001072001384400000011080013865000000107200138804000001108001390140000010720013916800000110800139385000001072001395320000011080013974900000107200139896000001108001401130000010720014026700000110800140477000001072001406310000011080014084100000107200140995000001108001412050000010720014135900000110800141576000001072001417230000011080014194000000107200142087000001108001423040000010720014245800000110800142668000001072001428220000011080014303200000107200143186000001108001434030000010720014355000000110800143767000001072001439140000011080014413100000107200144278000001108001444950000010720014464900000110800144859000001072001450130000011080014522300000107200145377000001108001455940000010720014574100000110800145958000001072001461050000011080014632200000107200146476000001108001466860000010720014684000000110800147050000001072001472040000011080014741400000107200">>,
       <<3020, "0722418338010360008041079200107200080549756001036000891768280010720009007803600103600090225036001072000904140360010360009059603600107200090778036001036000909600360010720009109503600103600091354036001072000914770360010360009172203600107200091820036001036000920930360010720009218403600103600103748036001072001039230360010360010410503600107200104287036001036001044690360010720010465103600103600104833036001072001050150360010360010519703600107200105386036001036001055680360010720010575003600103600105932036001072001061140360010360010629603600107200106478036001036001066600360010720010684203600103600107024036001072001072060360010360010738803600107200107577036001036001077590360010720010794103600103600108123036001072001083050360010360010848703600107200108669036001036001088510360010720010903303600103600109215036001072001093970360010360010958603600107200109796036001036001099500360010720011016003600103600110314036001072001105240360010360011067803600107200110895036001036001110420360010720011125903600103600111406036001072001116230360010360011177703600107200111987036001036001121410360010720011235103600103600112505036001072001127220360010360011286903600107200113086036001036001132330360010720011345003600103600113597036001072001138140360010360011396803600107200114178036001036001143320360010720011454203600103600114696036001072001149130360010360011506003600107200115277036001036001154240360010720011564103600103600115795036001072001160050360010360011615903600107200116369036001036001165230360010720011673303600103600116887036001072001171040360010360011725103600107200117468036001036001176150360010720011783203600103600117986036001072001181960360010360011835003600107200118560036001036001187140360010720011893103600103600119078036001072001192950360010360011944203600107200119659036001036001198130360010720012002303600103600120177036001072001203870360010360012054103600107200120751036001036001209050360010720012112203600103600121269036001072001214860360010360012163303600107200121850036001036001220040360010720012221403600103600122368036001072001225780360010360012273203600107200122949036001036001230960360010720012331303600103600123460036001072001236770360010360012382403600107200124041036001036001241950360010720012440503600103600124559036001072001247690360010360012492303600107200125140036001036001252870360010720012550403600103600125651036001072001258680360010360012602203600107200126232036001036001263860360010720012659603600103600126750036001072001269600360010360012711403600107200127331036001036001274780360010720012769503600103600127842036001072001280590360010360012821303600107200128423036001036001285770360010720012878703600103600128941036001072001291580360010360012930503600107200129522036001036001296690360010720012988603600103600130040036001072001302500360010360013040403600107200130614036001036001307680360010720013097803600103600131132036001072001313490360010360013149603600107200131713036001036001318600360010720013207703600103600132231036001072001324410360010360013259503600107200132805036001036001329590360010720013317603600103600133323036001072001335400360010360013368703600107200133904036001036001340510360010720013426803600103600134422036001072001346320360010360013478603600107200134996036001036001351500360010720013536703600103600135514036001072001357310360010360013587803600107200136095036001036001362490360010720013645903600103600136613036001072001368230360010360013697703600107200137187036001036001373410360010720013755803600103600137705036001072001379220360010360013806903600107200138286036001036001384400360010720013865003600103600138804036001072001390140360010360013916803600107200139385036001036001395320360010720013974903600103600139896036001072001401130360010360014026703600107200140477036001036001406310360010720014084103600103600140995036001072001412050360010360014135903600107200141576036001036001417230360010720014194003600103600142087036001072001423040360010360014245803600107200142668036001036001428220360010720014303203600103600143186036001072001434030360010360014355003600107200143767036001036001439140360010720014413103600103600144278036001072001444950360010360014464903600107200144859036001036001450130360010720014522303600103600145377036001072001455940360010360014574103600107200145958036001036001461050360010720014632203600103600146476036001072001466860360010360014684003600107200147050036001036001472040360010720014741403600103600">>,
       <<(0 - 1284), "06734201284100000080417072001036000805500720010000008073907200103600080901072001000000810890720010360008127907200100000081460072001036000816430720010000008182407200103600082035072001000000821950720010360008237807200100000082552072001036000827480720010000008294407200103600083091072001000000833010720010360008346207200100000083672072001036000838400720010000008403607200103600084204072001000000843930720010360008456807200100000084771072001036000849390720010000008513507200103600085303072001000000854920720010360008566707200100000085863072001036000860310720010000008622707200103600086395072001000000865840720010360008676607200100000086962072001036000871300720010000008731907200103600087494072001000000876900720010360008785807200100000088054072001036000882220720010000008841107200103600088586072001000000887820720010360008899907200100000089097072001036000895310360010720008962903600103600089867036001072000899930360010360009023103600107200090364036001036000905950360010720009076303600103600090960036001072000910640360010360009114807200100000091337072001036000915120720010000009167307200103600091701036001072000918200360010360009190407200100000092037072001036000922680720010000009242207200103600092632072001000000928000720010360009298907200100000093164072001036000933530720010000009353507200103600093724072001000000938990720010360009406707200100000094256072001036000944310720010000009462707200103600094795072001000000949980720010360009516607200100000095355072001036001044690360010720010465103600103600104833036001072001050150360010360010519703600107200105386036001036001055680360010720010575003600103600105932036001072001061140360010360010629603600107200106478036001036001066600360010720010684203600103600107024036001072001072060360010360010738803600107200107577036001036001077590360010720010794103600103600108123036001072001083050360010360010848703600107200108669036001036001088510360010720010903303600103600109215036001072001093970360010360010958603600107200109796036001036001099500360010720011016003600103600110314036001072001105240360010360011067803600107200110895036001036001110420360010720011125903600103600111406036001072001116230360010360011177703600107200111987036001036001121410360010720011235103600103600112505036001072001127220360010360011286903600107200113086036001036001132330360010720011345003600103600113597036001072001138140360010360011396803600107200114178036001036001143320360010720011454203600103600114696036001072001149130360010360011506003600107200115277036001036001154240360010720011564103600103600115795036001072001160050360010360011615903600107200116369036001036001165230360010720011673303600103600116887036001072001171040360010360011725103600107200117468036001036001176150360010720011783203600103600117986036001072001181960360010360011835003600107200118560036001036001187140360010720011893103600103600119078036001072001192950360010360011944203600107200119659036001036001198130360010720012002303600103600120177036001072001203870360010360012054103600107200120751036001036001209050360010720012112203600103600121269036001072001214860360010360012163303600107200121850036001036001220040360010720012221403600103600122368036001072001225780360010360012273203600107200122949036001036001230960360010720012331303600103600123460036001072001236770360010360012382403600107200124041036001036001241950360010720012440503600103600124559036001072001247690360010360012492303600107200125140036001036001252870360010720012550403600103600125651036001072001258680360010360012602203600107200126232036001036001263860360010720012659603600103600126750036001072001269600360010360012711403600107200127331036001036001274780360010720012769503600103600127842036001072001280590360010360012821303600107200128423036001036001285770360010720012878703600103600128941036001072001291580360010360012930503600107200129522036001036001296690360010720012988603600103600130040036001072001302500360010360013040403600107200130614036001036001307680360010720013097803600103600131132036001072001313490360010360013149603600107200131713036001036001318600360010720013207703600103600132231036001072001324410360010360013259503600107200132805036001036001329590360010720013317603600103600133323036001072001335400360010360013368703600107200133904036001036001340510360010720013426803600103600134422036001072001346320360010360013478603600107200134996036001036001351500360010720013536703600103600135514036001072001357310360010360013587803600107200136095036001036001362490360010720013645903600103600136613036001072001368230360010360013697703600107200137187036001036001373410360010720013755803600103600137705036001072001379220360010360013806903600107200138286036001036001384400360010720013865003600103600138804036001072001390140360010360013916803600107200139385036001036001395320360010720013974903600103600139896036001072001401130360010360014026703600107200140477036001036001406310360010720014084103600103600140995036001072001412050360010360014135903600107200141576036001036001417230360010720014194003600103600142087036001072001423040360010360014245803600107200142668036001036001428220360010720014303203600103600143186036001072001434030360010360014355003600107200143767036001036001439140360010720014413103600103600144278036001072001444950360010360014464903600107200144859036001036001450130360010720014522303600103600145377036001072001455940360010360014574103600107200145958036001036001461050360010720014632203600103600146476036001072001466860360010360014684003600107200147050036001036001472040360010720014741403600103600">>,
       <<(0 - 609), "079349006091000000804170720010360008055007200100000080739072001036000809010720010000008108907200103600081279072001000000814600720010360008164307200100000081824072001036000820350720010000008219507200103600082378072001000000825520720010360008274807200100000082944072001036000830910720010000008330107200103600083462072001000000836720720010360008384007200100000084036072001036000842040720010000008439307200103600084568072001000000847710720010360008493907200100000085135072001036000853030720010000008549207200103600085667072001000000858630720010360008603107200100000086227072001036000863950720010000008658407200103600086766072001000000869620720010360008713007200100000087319072001036000874940720010000008769007200103600087858072001000000880540720010360008822207200100000088411072001036000885860720010000008878207200103600088999072001000000890970720010360008922482800107200090078036001036000902250360010720009041403600103600090596036001072000907780360010360009096003600107200091064036001036000911480720010000009133707200103600091512072001000000916730720010360009170103600107200091820036001036000919040720010000009203707200103600092268072001000000924220720010360009263207200100000092800072001036000929890720010000009316407200103600093353072001000000935350720010360009372407200100000093899072001036000940670720010000009425607200103600094431072001000000946270720010360009479507200100000094998072001036000951660720010000009535507200103600095530072001000000957260720010360009589407200100000096090072001036000962580720010000009644707200103600096622072001000000967970720010360009701407200100000097161072001036000973780720010000009753207200103600097742072001000000978890720010360009810607200100000098253072001036000984700720010000009861707200103600098834072001000000989810720010360009920507200100000099317072001036001006680720010000010080807200103600101032072001000001011720720010360010139607200100000101536072001036001017600720010000010190007200103600102124072001000001022710720010360010248807200100000102635072001036001028520720010000010299907200103600103223072001000001033630720010360010358707200100000103727072001036001039510720010000010410503600103600104315036001000001044690360010360010467903600100000104833036001036001050430360010000010519703600103600105414036001000001055680360010360010577803600100000105932036001036001061420360010000010629603600103600106506036001000001066600360010360010687003600100000107024036001036001072410360010000010738803600103600107605036001000001077590360010360010796903600100000108123036001036001083330360010000010848703600103600108697036001000001088510360010360010906103600100000109215036001036001094250360010000010958603600103600109796036001000001099500360010360011016003600100000110314036001036001105240360010000011067803600103600110895036001000001110420360010360011125903600100000111406036001036001116230360010000011177703600103600111987036001000001121410360010360011235103600100000112505036001036001127220360010000011286903600103600113086036001000001132330360010360011345003600100000113597036001036001138140360010000011396803600103600114178036001000001143320360010360011454203600100000114696036001036001149130360010000011506003600103600115277036001000001154240360010360011564103600100000115795036001036001160050360010000011615903600103600116369036001000001165230360010360011673303600100000116887036001036001171040360010000011725103600103600117468036001000001176150360010360011783203600100000117986036001036001181960360010000011835003600103600118560036001000001187140360010360011893103600100000119078036001036001192950360010000011944203600103600119659036001000001198130360010360012002303600100000120177036001036001203870360010000012054103600103600120751036001000001209050360010360012112203600100000121269036001036001214860360010000012163303600103600121850036001000001220040360010360012221403600100000122368036001036001225780360010000012273203600103600122949036001000001230960360010360012331303600100000123460036001036001236770360010000012382403600103600124041036001000001241950360010360012440503600100000124559036001036001247690360010000012492303600103600125140036001000001252870360010360012550403600100000125651036001036001258680360010000012602203600103600126232036001000001263860360010360012659603600100000126750036001036001269600360010000012711403600103600127331036001000001274780360010360012769503600100000127842036001036001280590360010000012821303600103600128423036001000001285770360010360012878703600100000128941036001036001291580360010000012930503600103600129522036001000001296690360010360012988603600100000130040036001036001302500360010000013040403600103600130614036001000001307680360010360013097803600100000131132036001036001313490360010000013149603600103600131713036001000001318600360010360013207703600100000132231036001036001324410360010000013259503600103600132805036001000001329590360010360013317603600100000133323036001036001335400360010000013368703600103600133904036001000001340510360010360013426803600100000134422036001036001346320360010000013478603600103600134996036001000001351500360010360013536703600100000135514036001036001357310360010000013587803600103600136095036001000001362490360010360013645903600100000136613036001036001368230360010000013697703600103600137187036001000001373410360010360013755803600100000137705036001036001379220360010000013806903600103600138286036001000001384400360010360013865003600100000138804036001036001390140360010000013916803600103600139385036001000001395320360010360013974903600100000139896036001036001401130360010000014026703600103600140477036001000001406310360010360014084103600100000140995036001036001412050360010000014135903600103600141576036001000001417230360010360014194003600100000142087036001036001423040360010000014245803600103600142668036001000001428220360010360014303203600100000143186036001036001434030360010000014355003600103600143767036001000001439140360010360014413103600100000144278036001036001444950360010000014464903600103600144859036001000001450130360010360014522303600100000145377036001036001455940360010000014574103600103600145958036001000001461050360010360014632203600100000146476036001036001466860360010000014684003600103600147050036001000001472040360010360014741403600100000">>,
       <<5989, "08222280411107200089864792001108000900487920010720010410500000110800104287000001072001044690000011080010465100000107200104833036001108001050150360010720010519703600110800105386036001072001055680360011080010575003600107200105932036001108001061140360010720010629603600110800106478036001072001066600360011080010684203600107200107024036001108001072060360010720010738803600110800107577036001072001077590360011080010794103600107200108123036001108001083050360010720010848703600110800108669036001072001088510360011080010903303600107200109215036001108001093970360010720010958603600110800109796036001072001099500360011080011016003600107200110314036001108001105240360010720011067803600110800110895036001072001110420360011080011125903600107200111406036001108001116230360010720011177703600110800111987036001072001121410360011080011235103600107200112505036001108001127220360010720011286903600110800113086036001072001132330360011080011345003600107200113597036001108001138140360010720011396803600110800114178036001072001143320360011080011454203600107200114696036001108001149130360010720011506003600110800115277036001072001154240360011080011564103600107200115795036001108001160050360010720011615903600110800116369036001072001165230360011080011673303600107200116887036001108001171040360010720011725103600110800117468036001072001176150360011080011783203600107200117986036001108001181960360010720011835003600110800118560036001072001187140360011080011893103600107200119078036001108001192950360010720011944203600110800119659036001072001198130360011080012002303600107200120177036001108001203870360010720012054103600110800120751036001072001209050360011080012112203600107200121269036001108001214860360010720012163303600110800121850036001072001220040360011080012221403600107200122368036001108001225780360010720012273203600110800122949036001072001230960360011080012331303600107200123460036001108001236770360010720012382403600110800124041036001072001241950360011080012440503600107200124559036001108001247690360010720012492303600110800125140036001072001252870360011080012550403600107200125651036001108001258680360010720012602203600110800126232036001072001263860360011080012659603600107200126750036001108001269600360010720012711403600110800127331036001072001274780360011080012769503600107200127842036001108001280590360010720012821303600110800128423036001072001285770360011080012878703600107200128941036001108001291580360010720012930503600110800129522036001072001296690360011080012988603600107200130040036001108001302500360010720013040403600110800130614036001072001307680360011080013097803600107200131132036001108001313490360010720013149603600110800131713036001072001318600360011080013207703600107200132231036001108001324410360010720013259503600110800132805036001072001329590360011080013317603600107200133323036001108001335400360010720013368703600110800133904036001072001340510360011080013426803600107200134422036001108001346320360010720013478603600110800134996036001072001351500360011080013536703600107200135514036001108001357310360010720013587803600110800136095036001072001362490360011080013645903600107200136613036001108001368230360010720013697703600110800137187036001072001373410360011080013755803600107200137705036001108001379220360010720013806903600110800138286036001072001384400360011080013865003600107200138804036001108001390140360010720013916803600110800139385036001072001395320360011080013974903600107200139896036001108001401130360010720014026703600110800140477036001072001406310360011080014084103600107200140995036001108001412050360010720014135903600110800141576036001072001417230360011080014194003600107200142087036001108001423040360010720014245803600110800142668036001072001428220360011080014303203600107200143186036001108001434030360010720014355003600110800143767036001072001439140360011080014413103600107200144278036001108001444950360010720014464903600110800144859036001072001450130360011080014522303600107200145377036001108001455940360010720014574103600110800145958036001072001461050360011080014632203600107200146476036001108001466860360010720014684003600110800147050036001072001472040360011080014741403600107200">>,
       <<(0 - 1075), "0683120107510000008041707200103600080550072001000000807390720010360008090107200100000081089072001036000812790720010000008146007200103600081643072001000000818240720010360008203507200100000082195072001036000823780720010000008255207200103600082748072001000000829440720010360008309107200100000083301072001036000834620720010000008367207200103600083840072001000000840360720010360008420407200100000084393072001036000845680720010000008477107200103600084939072001000000851350720010360008530307200100000085492072001036000856670720010000008586307200103600086031072001000000862270720010360008639507200100000086584072001036000867660720010000008696207200103600087130072001000000873190720010360008749407200100000087690072001036000878580720010000008805407200103600088222072001000000884110720010360008858607200100000088782072001036000889990720010000008909707200103600089531036001072000896290360010360008986703600107200089993036001036000902310360010720009036403600103600090595036001072000907630360010360009096003600107200091064036001036000911480720010000009133707200103600091512072001000000916730720010360009170103600107200091820036001036000919040720010000009203707200103600092268072001000000924220720010360009263207200100000092800072001036000929890720010000009316407200103600093353072001000000935350720010360009372407200100000093899072001036000940670720010000009425607200103600094431072001000000946270720010360009479507200100000094998072001036000951660720010000009535507200103600095530072001000000957260720010360009589407200100000096090072001036000962580720010000009644707200103600096622072001000000967970720010360009701407200100000097161072001036000973780720010000009753207200103600097742072001000000978890720010360009810607200100000098253072001036000984700720010000009861707200103600098834072001000000989810720010360009920507200100000099317072001036001006680720010000010080807200103600101032072001000001011720720010360010139607200100000101536072001036001017600720010000010190007200103600102124072001000001022710720010360010248807200100000102635072001036001028520720010000010299907200103600103223072001000001033630720010360010358707200100000103727072001036001039510720010000010410503600103600104315036001000001044690360010360010467903600100000104833036001036001050430360010000010519703600103600105414036001000001055680360010360010577803600100000105932036001036001061420360010000010629603600103600106506036001000001066600360010360010687003600100000107024036001036001072410360010000010738803600103600107605036001000001077590360010360010796903600100000108123036001036001083330360010000010848703600103600108697036001000001088510360010360010906103600100000109215036001036001094250360010000010958603600103600109796036001000001099500360010360011016003600100000110314036001036001105240360010000011067803600103600110895036001000001110420360010360011125903600100000111406036001036001116230360010000011177703600103600111987036001000001121410360010360011235103600100000112505036001036001127220360010000011286903600103600113086036001000001132330360010360011345003600100000113597036001036001138140360010000011396803600103600114178036001000001143320360010360011454203600100000114696036001036001149130360010000011506003600103600115277036001000001154240360010360011564103600100000115795036001036001160050360010000011615903600103600116369036001000001165230360010360011673303600100000116887036001036001171040360010000011725103600103600117468036001000001176150360010360011783203600100000117986036001036001181960360010000011835003600103600118560036001000001187140360010360011893103600100000119078036001036001192950360010000011944203600103600119659036001000001198130360010360012002303600100000120177036001036001203870360010000012054103600103600120751036001000001209050360010360012112203600100000121269036001036001214860360010000012163303600103600121850036001000001220040360010360012221403600100000122368036001036001225780360010000012273203600103600122949036001000001230960360010360012331303600100000123460036001036001236770360010000012382403600103600124041036001000001241950360010360012440503600100000124559036001036001247690360010000012492303600103600125140036001000001252870360010360012550403600100000125651036001036001258680360010000012602203600103600126232036001000001263860360010360012659603600100000126750036001036001269600360010000012711403600103600127331036001000001274780360010360012769503600100000127842036001036001280590360010000012821303600103600128423036001000001285770360010360012878703600100000128941036001036001291580360010000012930503600103600129522036001000001296690360010360012988603600100000130040036001036001302500360010000013040403600103600130614036001000001307680360010360013097803600100000131132036001036001313490360010000013149603600103600131713036001000001318600360010360013207703600100000132231036001036001324410360010000013259503600103600132805036001000001329590360010360013317603600100000133323036001036001335400360010000013368703600103600133904036001000001340510360010360013426803600100000134422036001036001346320360010000013478603600103600134996036001000001351500360010360013536703600100000135514036001036001357310360010000013587803600103600136095036001000001362490360010360013645903600100000136613036001036001368230360010000013697703600103600137187036001000001373410360010360013755803600100000137705036001036001379220360010000013806903600103600138286036001000001384400360010360013865003600100000138804036001036001390140360010000013916803600103600139385036001000001395320360010360013974903600100000139896036001036001401130360010000014026703600103600140477036001000001406310360010360014084103600100000140995036001036001412050360010000014135903600103600141576036001000001417230360010360014194003600100000142087036001036001423040360010000014245803600103600142668036001000001428220360010360014303203600100000143186036001036001434030360010000014355003600103600143767036001000001439140360010360014413103600100000144278036001036001444950360010000014464903600103600144859036001000001450130360010360014522303600100000145377036001036001455940360010000014574103600103600145958036001000001461050360010360014632203600100000146476036001036001466860360010000014684003600103600147050036001000001472040360010360014741403600100000">>,
       <<(0 - 506), "073864576001000000804170720010360008055007200100000080739072001036000809010720010000008108907200103600081279072001000000814600720010360008164307200100000081824072001036000820350720010000008219507200103600082378072001000000825520720010360008274807200100000082944072001036000830910720010000008330107200103600083462072001000000836720720010360008384007200100000084036072001036000842040720010000008439307200103600084568072001000000847710720010360008493907200100000085135072001036000853030720010000008549207200103600085667072001000000858630720010360008603107200100000086227072001036000863950720010000008658407200103600086766072001000000869620720010360008713007200100000087319072001036000874940720010000008769007200103600087858072001000000880540720010360008822207200100000088411072001036000885860720010000008878207200103600088999072001000000890970720010360008922482800107200090078036001036000902250360010720009041403600103600090596036001072000907780360010360009096003600107200091064036001036000911480720010000009133707200103600091512072001000000916730720010360009170103600107200091820036001036000919040720010000009203707200103600092268072001000000924220720010360009263207200100000092800072001036000929890720010000009316407200103600093353072001000000935350720010360009372407200100000093899072001036000940670720010000009425607200103600094431072001000000946270720010360009479507200100000094998072001036000951660720010000009535507200103600095530072001000000957260720010360009589407200100000096090072001036000962580720010000009644707200103600096622072001000000967970720010360009701407200100000097161072001036000973780720010000009753207200103600097742072001000000978890720010360009810607200100000098253072001036000984700720010000009861707200103600098834072001000000989810720010360009920507200100000099317072001036001006680720010000010080807200103600101032072001000001011720720010360010139607200100000101536072001036001017600720010000010190007200103600102124072001000001022710720010360010248807200100000102635072001036001028520720010000010299907200103600103223072001000001033630720010360010358707200100000103727072001036001039510720010000010410503600103600104315036001000001044690360010360010467903600100000104833036001036001050430360010000010519703600103600105414036001000001055680360010360010577803600100000105932036001036001061420360010000010629603600103600106506036001000001066600360010360010687003600100000107024036001036001072410360010000010738803600103600107605036001000001077590360010360010796903600100000108123036001036001083330360010000010848703600103600108697036001000001088510360010360010906103600100000109215036001036001094250360010000010958603600103600109796036001000001099500360010360011016003600100000110314036001036001105240360010000011067803600103600110895036001000001110420360010360011125903600100000111406036001036001116230360010000011177703600103600111987036001000001121410360010360011235103600100000112505036001036001127220360010000011286903600103600113086036001000001132330360010360011345003600100000113597036001036001138140360010000011396803600103600114178036001000001143320360010360011454203600100000114696036001036001149130360010000011506003600103600115277036001000001154240360010360011564103600100000115795036001036001160050360010000011615903600103600116369036001000001165230360010360011673303600100000116887036001036001171040360010000011725103600103600117468036001000001176150360010360011783203600100000117986036001036001181960360010000011835003600103600118560036001000001187140360010360011893103600100000119078036001036001192950360010000011944203600103600119659036001000001198130360010360012002303600100000120177036001036001203870360010000012054103600103600120751036001000001209050360010360012112203600100000121269036001036001214860360010000012163303600103600121850036001000001220040360010360012221403600100000122368036001036001225780360010000012273203600103600122949036001000001230960360010360012331303600100000123460036001036001236770360010000012382403600103600124041036001000001241950360010360012440503600100000124559036001036001247690360010000012492303600103600125140036001000001252870360010360012550403600100000125651036001036001258680360010000012602203600103600126232036001000001263860360010360012659603600100000126750036001036001269600360010000012711403600103600127331036001000001274780360010360012769503600100000127842036001036001280590360010000012821303600103600128423036001000001285770360010360012878703600100000128941036001036001291580360010000012930503600103600129522036001000001296690360010360012988603600100000130040036001036001302500360010000013040403600103600130614036001000001307680360010360013097803600100000131132036001036001313490360010000013149603600103600131713036001000001318600360010360013207703600100000132231036001036001324410360010000013259503600103600132805036001000001329590360010360013317603600100000133323036001036001335400360010000013368703600103600133904036001000001340510360010360013426803600100000134422036001036001346320360010000013478603600103600134996036001000001351500360010360013536703600100000135514036001036001357310360010000013587803600103600136095036001000001362490360010360013645903600100000136613036001036001368230360010000013697703600103600137187036001000001373410360010360013755803600100000137705036001036001379220360010000013806903600103600138286036001000001384400360010360013865003600100000138804036001036001390140360010000013916803600103600139385036001000001395320360010360013974903600100000139896036001036001401130360010000014026703600103600140477036001000001406310360010360014084103600100000140995036001036001412050360010000014135903600103600141576036001000001417230360010360014194003600100000142087036001036001423040360010000014245803600103600142668036001000001428220360010360014303203600100000143186036001036001434030360010000014355003600103600143767036001000001439140360010360014413103600100000144278036001036001444950360010000014464903600103600144859036001000001450130360010360014522303600100000145377036001036001455940360010000014574103600103600145958036001000001461050360010360014632203600100000146476036001036001466860360010000014684003600103600147050036001000001472040360010360014741403600100000">>,
       <<4920, "071966814801036000803967920010720008054982800103600080747036001072000809010360010360008111103600107200081265036001036000891330360010720009007803600103600090225036001072000904140360010360009059603600107200090778036001036000909600360010720009098679200110800091172756001072000913297920011080010410775600114400104290720001108001044727560011440010465572000110800104837756001144001050207200011080010520375600114400105385828001108001055678280011440010574982800110800105931828001144001061138280011080010629582800114400106477828001108001066598280011440010684182800110800107206000001072001073880000011080010757700000107200107759000001108001079410000010720010812300000110800108305000001072001084870000011080010866900000107200108851000001108001090330000010720010921500000110800109397000001072001095860000011080010979600000107200109950000001108001101600000010720011031400000110800110524000001072001106780000011080011089500000107200111042000001108001112590000010720011140600000110800111623000001072001117770000011080011198700000107200112141000001108001123510000010720011250500000110800112722000001072001128690000011080011308600000107200113233000001108001134500000010720011359700000110800113814000001072001139680000011080011417800000107200114332000001108001145420000010720011469600000110800114913000001072001150600000011080011636882800107200">>,
       <<7324, "08331979076107200085560792001108000896697560010720009007803600103600090225036001072000904140360010360009044682800110800104107756001144001042907200011080010447275600114400104655720001108001048377560011440010502072000110800105203756001144001053858280011080010556782800114400105749828001108001059318280011440010611382800110800106295828001144001064778280011080010665982800114400106841828001108001070238280011440010720582800110800107387828001144001074857920011080010794100000107200108123000001108001083050000010720010848700000110800108669000001072001088510000011080010903300000107200109215000001108001093970000010720010958600000110800109796036001072001099500360011080011016003600107200110314036001108001105240360010720011067803600110800110895036001072001110420360011080011125903600107200111406036001108001116230360010720011177703600110800111987036001072001121410360011080011235103600107200112505036001108001127220360010720011286903600110800113086036001072001132330360011080011345003600107200113597036001108001138140360010720011396803600110800114178036001072001143320360011080011454203600107200114696036001108001149130360010720011506003600110800115277036001072001154240360011080011564103600107200115795036001108001160050360010720011615903600110800116369036001072001165230360011080011673303600107200116887036001108001171040360010720011725103600110800117468036001072001176150360011080011783203600107200117986036001108001181960360010720011835003600110800118560036001072001187140360011080011893103600107200119078036001108001192950360010720011944203600110800119659036001072001198130360011080012002303600107200120177036001108001203870360010720012054103600110800120751036001072001209050360011080012112203600107200121269036001108001214860360010720012163303600110800121850036001072001220040360011080012221403600107200122368036001108001225780360010720012273203600110800122949036001072001230960360011080012331303600107200123460036001108001236770360010720012382403600110800124041036001072001241950360011080012440503600107200124559036001108001247690360010720012492303600110800125140036001072001252870360011080012550403600107200125651036001108001258680360010720012602203600110800126232036001072001263860360011080012659603600107200126750036001108001269600360010720012711403600110800127331036001072001274780360011080012769503600107200127842036001108001280590360010720012821303600110800128423036001072001285770360011080012878703600107200128941036001108001291580360010720012930503600110800129522036001072001296690360011080012988603600107200130040036001108001302500360010720013040403600110800130614036001072001307680360011080013097803600107200131132036001108001313490360010720013149603600110800131713036001072001318600360011080013207703600107200132231036001108001324410360010720013259503600110800132805036001072001329590360011080013317603600107200133323036001108001335400360010720013368703600110800133904036001072001340510360011080013426803600107200134422036001108001346320360010720013478603600110800134996036001072001351500360011080013536703600107200135514036001108001357310360010720013587803600110800136095036001072001362490360011080013645903600107200136613036001108001368230360010720013697703600110800137187036001072001373410360011080013755803600107200137705036001108001379220360010720013806903600110800138286036001072001384400360011080013865003600107200138804036001108001390140360010720013916803600110800139385036001072001395320360011080013974903600107200139896036001108001401130360010720014026703600110800140477036001072001406310360011080014084103600107200140995036001108001412050360010720014135903600110800141576036001072001417230360011080014194003600107200142087036001108001423040360010720014245803600110800142668036001072001428220360011080014303203600107200143186036001108001434030360010720014355003600110800143767036001072001439140360011080014413103600107200144278036001108001444950360010720014464903600110800144859036001072001450130360011080014522303600107200145377036001108001455940360010720014574103600110800145958036001072001461050360011080014632203600107200146476036001108001466860360010720014684003600110800147050036001072001472040360011080014741403600107200">>,
       <<11928, "08155300000110800085560756001144001041077200011800010429068400114400104472720001180001046556840011440010483772000118000105020684001144001052037200011800010538579200114400105567792001180001057497920011440010593179200118000106113792001144001062957920011800010647779200114400106659792001180001068417920011440010720582800110800107387828001144001075768280011080010775882800114400108304828001108001084868280011440010866882800110800108850828001144001090328280011080010921482800114400109396828001108001095858280011440010979582800110800109949828001144001101598280011080011031382800114400110523828001108001106778280011440011089482800110800111041828001144001112588280011080011140582800114400111622828001108001117768280011440011198682800110800112140828001144001123508280011080011250482800114400112721828001108001128688280011440011308582800110800113232828001144001134498280011080011359682800114400113813828001108001139678280011440011417782800110800114331828001144001145418280011080011469582800114400114912828001108001150598280011440011636879200110800">>,
       <<(0 - 2205), "078815000001000000804448280010360008058100000100000080700828001036000809288280010000008106682800103600081293828001000000814308280010360008165882800100000081796828001036000820248280010000008216182800103600082389828001000000833048280010360008348582800100000084035828001036000842038280010000008439282800103600084567828001000000847638280010360008493882800100000085134828001036000853028280010000008586282800103600086030828001000000862128280010360008639482800100000086947828001036000871298280010000008730482800103600087493828001000000876898280010360008785782800100000088039828001036000882218280010000008839682800103600088585828001000000887818280010360008899882800100000089096828001036000893208280010000008950282800103600089685828001000000898458280010360008988779200107200089999792001036000900698280010000009020982800103600090244792001072000903777920010360009044082800100000090573828001036000906157920010720009074179200103600090804828001000000909378280010360009097979200107200091105792001036000911688280010000009132982800103600091511828001000000916940720010360009187607200100000092058072001036000922400720010000009242207200103600092604072001000000927860720010360009296807200100000093150072001036000933390720010000009352107200103600093703072001000000938850720010360009406707200100000094249072001036000944310720010000009461307200103600094795072001000000949770720010360009516607200100000095348072001036000955300720010000009571207200103600095894072001000000960760720010360009625807200100000096440072001036000966220720010000009680407200103600096986072001000000971680720010360009735707200100000097539072001036000977210720010000009790307200103600098085072001000000982670720010360009844907200100000098631072001036001024600000010000010264200000103600102824000001000001030130000010360010319500000100000103377000001036001035590360010000010374100000103600103923036001000001041050360010360010428703600100000104469036001036001046510360010000010483307200103600105015036001000001051970360010360010538603600100000105568036001036001057500360010000010593203600103600106114036001000001062960360010360010647803600100000106660036001036001068420360010000010702403600103600107206036001000001073880360010360010757703600100000107759036001036001079410360010000010812303600103600108487036001072001086690360010360010885103600107200109033036001036001092150360010720010939703600103600109796036001000001099500360010360011016003600100000110314036001036001105240360010000011067803600103600110895036001000001110420360010360011125903600100000111406036001036001116230360010000011177703600103600111987036001000001121410360010360011235103600100000112505036001036001127220360010000011286903600103600113086036001000001132330360010360011345003600100000113597036001036001138140360010000011396803600103600114178036001000001143320360010360011454203600100000114696036001036001149130360010000011506003600103600115277036001000001154240360010360011564103600100000115795036001036001160050360010000011615903600103600116369036001000001165230360010360011673303600100000116887036001036001171040360010000011725103600103600117468036001000001176150360010360011783203600100000117986036001036001181960360010000011835003600103600118560036001000001187140360010360011893103600100000119078036001036001192950360010000011944203600103600119659036001000001198130360010360012002303600100000120177036001036001203870360010000012054103600103600120751036001000001209050360010360012112203600100000121269036001036001214860360010000012163303600103600121850036001000001220040360010360012221403600100000122368036001036001225780360010000012273203600103600122949036001000001230960360010360012331303600100000123460036001036001236770360010000012382403600103600124041036001000001241950360010360012440503600100000124559036001036001247690360010000012492303600103600125140036001000001252870360010360012550403600100000125651036001036001258680360010000012602203600103600126232036001000001263860360010360012659603600100000126750036001036001269600360010000012711403600103600127331036001000001274780360010360012769503600100000127842036001036001280590360010000012821303600103600128423036001000001285770360010360012878703600100000128941036001036001291580360010000012930503600103600129522036001000001296690360010360012988603600100000130040036001036001302500360010000013040403600103600130614036001000001307680360010360013097803600100000131132036001036001313490360010000013149603600103600131713036001000001318600360010360013207703600100000132231036001036001324410360010000013259503600103600132805036001000001329590360010360013317603600100000133323036001036001335400360010000013368703600103600133904036001000001340510360010360013426803600100000134422036001036001346320360010000013478603600103600134996036001000001351500360010360013536703600100000135514036001036001357310360010000013587803600103600136095036001000001362490360010360013645903600100000136613036001036001368230360010000013697703600103600137187036001000001373410360010360013755803600100000137705036001036001379220360010000013806903600103600138286036001000001384400360010360013865003600100000138804036001036001390140360010000013916803600103600139385036001000001395320360010360013974903600100000139896036001036001401130360010000014026703600103600140477036001000001406310360010360014084103600100000140995036001036001412050360010000014135903600103600141576036001000001417230360010360014194003600100000142087036001036001423040360010000014245803600103600142668036001000001428220360010360014303203600100000143186036001036001434030360010000014355003600103600143767036001000001439140360010360014413103600100000144278036001036001444950360010000014464903600103600144859036001000001450130360010360014522303600100000145377036001036001455940360010000014574103600103600145958036001000001461050360010360014632203600100000146476036001036001466860360010000014684003600103600147050036001000001472040360010360014741403600100000">>,
       <<3484, "068588829161036000895157920010720009007803600103600090225036001072000904140360010360009059603600107200090778036001036000909600360010720009112703600103600104833036001072001050150360010360010519703600107200105386036001036001055680360010720010575003600103600105932036001072001061140360010360010629603600107200106478036001036001066600360010720010684203600103600107024036001072001072060360010360010738803600107200107577036001036001077590360010720010794103600103600108123036001072001083050360010360010848703600107200108669036001036001088510360010720010903303600103600109215036001072001093970360010360010958603600107200109796036001036001099500360010720011016003600103600110314036001072001105240360010360011067803600107200110895036001036001110420360010720011125903600103600111406036001072001116230360010360011177703600107200111987036001036001121410360010720011235103600103600112505036001072001127220360010360011286903600107200113086036001036001132330360010720011345003600103600113597036001072001138140360010360011396803600107200114178036001036001143320360010720011454203600103600114696036001072001149130360010360011506003600107200115277036001036001154240360010720011564103600103600115795036001072001160050360010360011615903600107200116369036001036001165230360010720011673303600103600116887036001072001171040360010360011725103600107200117468036001036001176150360010720011783203600103600117986036001072001181960360010360011835003600107200118560036001036001187140360010720011893103600103600119078036001072001192950360010360011944203600107200119659036001036001198130360010720012002303600103600120177036001072001203870360010360012054103600107200120751036001036001209050360010720012112203600103600121269036001072001214860360010360012163303600107200121850036001036001220040360010720012221403600103600122368036001072001225780360010360012273203600107200122949036001036001230960360010720012331303600103600123460036001072001236770360010360012382403600107200124041036001036001241950360010720012440503600103600124559036001072001247690360010360012492303600107200125140036001036001252870360010720012550403600103600125651036001072001258680360010360012602203600107200126232036001036001263860360010720012659603600103600126750036001072001269600360010360012711403600107200127331036001036001274780360010720012769503600103600127842036001072001280590360010360012821303600107200128423036001036001285770360010720012878703600103600128941036001072001291580360010360012930503600107200129522036001036001296690360010720012988603600103600130040036001072001302500360010360013040403600107200130614036001036001307680360010720013097803600103600131132036001072001313490360010360013149603600107200131713036001036001318600360010720013207703600103600132231036001072001324410360010360013259503600107200132805036001036001329590360010720013317603600103600133323036001072001335400360010360013368703600107200133904036001036001340510360010720013426803600103600134422036001072001346320360010360013478603600107200134996036001036001351500360010720013536703600103600135514036001072001357310360010360013587803600107200136095036001036001362490360010720013645903600103600136613036001072001368230360010360013697703600107200137187036001036001373410360010720013755803600103600137705036001072001379220360010360013806903600107200138286036001036001384400360010720013865003600103600138804036001072001390140360010360013916803600107200139385036001036001395320360010720013974903600103600139896036001072001401130360010360014026703600107200140477036001036001406310360010720014084103600103600140995036001072001412050360010360014135903600107200141576036001036001417230360010720014194003600103600142087036001072001423040360010360014245803600107200142668036001036001428220360010720014303203600103600143186036001072001434030360010360014355003600107200143767036001036001439140360010720014413103600103600144278036001072001444950360010360014464903600107200144859036001036001450130360010720014522303600103600145377036001072001455940360010360014574103600107200145958036001036001461050360010720014632203600103600146476036001072001466860360010360014684003600107200147050036001036001472040360010720014741403600103600">>,
       <<1476, "07604484924103600080410792001072000805498280010360008075979200107200080900828001036000811110360010720008126503600103600081334828001000000814318280010360008164907200100000081781828001036000820340360010000008217582800103600082401036001000000825518280010360008274800000100000082943828001036000831120360010000008328682800103600083476000001000000836588280010360008384000000100000084035828001036000842040000010000008439282800103600084568000001000000847638280010360008493900000100000085134828001036000853030720010000008549207200103600085667072001000000858630720010360008603107200100000086213072001036000863950720010000008657007200103600086766072001000000869480720010360008713007200100000087305072001036000874940720010000008769007200103600087858072001000000880400720010360008822207200100000088397072001036000885860720010000008878207200103600088999072001000000890970720010360008917607200107200090078036001036000902250360010720009041403600103600090596036001072000907640360010360009096003600107200091127036001036000913720360010720009151303600103600102649036001072001028240360010360010301303600107200103195036001036001033770360010720010355903600103600103748036001072001039230360010360010410503600107200104287036001036001044690360010720010465103600103600104833036001072001050150360010360010519703600107200105386036001036001055680360010720010575003600103600105932036001072001061140360010360010629603600107200106478036001036001066600360010720010684203600103600107024036001072001072060360010360010738803600107200107577036001036001077590360010720010794103600103600108123036001072001083050360010360010848703600107200108669036001036001088510360010720010903303600103600109215036001072001093970360010360010958603600107200109796036001036001099500360010720011016003600103600110314036001072001105240360010360011067803600107200110895036001036001110420360010720011125903600103600111406036001072001116230360010360011177703600107200111987036001036001121410360010720011235103600103600112505036001072001127220360010360011286903600107200113086036001036001132330360010720011345003600103600113597036001072001138140360010360011396803600107200114178036001036001143320360010720011454203600103600114696036001072001149130360010360011506003600107200115277036001036001154240360010720011564103600103600115795036001072001160050360010360011615903600107200116369036001036001165230360010720011673303600103600116887036001072001171040360010360011725103600107200117468036001036001176150360010720011783203600103600117986036001072001181960360010360011835003600107200118560036001036001187140360010720011893103600103600119078036001072001192950360010360011944203600107200119659036001036001198130360010720012002303600103600120177036001072001203870360010360012054103600107200120751036001036001209050360010720012112203600103600121269036001072001214860360010360012163303600107200121850036001036001220040360010720012221403600103600122368036001072001225780360010360012273203600107200122949036001036001230960360010720012331303600103600123460036001072001236770360010360012382403600107200124041036001036001241950360010720012440503600103600124559036001072001247690360010360012492303600107200125140036001036001252870360010720012550403600103600125651036001072001258680360010360012602203600107200126232036001036001263860360010720012659603600103600126750036001072001269600360010360012711403600107200127331036001036001274780360010720012769503600103600127842036001072001280590360010360012821303600107200128423036001036001285770360010720012878703600103600128941036001072001291580360010360012930503600107200129522036001036001296690360010720012988603600103600130040036001072001302500360010360013040403600107200130614036001036001307680360010720013097803600103600131132036001072001313490360010360013149603600107200131713036001036001318600360010720013207703600103600132231036001072001324410360010360013259503600107200132805036001036001329590360010720013317603600103600133323036001072001335400360010360013368703600107200133904036001036001340510360010720013426803600103600134422036001072001346320360010360013478603600107200134996036001036001351500360010720013536703600103600135514036001072001357310360010360013587803600107200136095036001036001362490360010720013645903600103600136613036001072001368230360010360013697703600107200137187036001036001373410360010720013755803600103600137705036001072001379220360010360013806903600107200138286036001036001384400360010720013865003600103600138804036001072001390140360010360013916803600107200139385036001036001395320360010720013974903600103600139896036001072001401130360010360014026703600107200140477036001036001406310360010720014084103600103600140995036001072001412050360010360014135903600107200141576036001036001417230360010720014194003600103600142087036001072001423040360010360014245803600107200142668036001036001428220360010720014303203600103600143186036001072001434030360010360014355003600107200143767036001036001439140360010720014413103600103600144278036001072001444950360010360014464903600107200144859036001036001450130360010720014522303600103600145377036001072001455940360010360014574103600107200145958036001036001461050360010720014632203600103600146476036001072001466860360010360014684003600107200147050036001036001472040360010720014741403600103600">>,
       <<(0 - 884), "07479800000100000081111828001036000812860000010000008146782800103600081651000001000000833048280010360008347600000100000084035828001036000842040000010000008439282800103600084568000001000000847640000010360008493900000100000085134828001036000853030000010000008811382800103600088222000001000000884038280010360008843179200107200088586792001036000889570000010000008911782800103600089894792001072000900158280010360009024479200107200090412828001036000906087920010720009077682800103600090972792001072000911408280010360009133679200107200091504828001036000924497920010720009260382800103600101563792001072001017388280010360010192779200107200102102828001036001022777920010720010245982800103600102648792001072001028238280010360010301303600107200103195036001036001033770360010720010355903600103600103748036001072001039230360010360010410503600107200104287036001036001044690360010720010465103600103600104833036001072001050150360010360010519703600107200105386036001036001055680360010720010575003600103600105932036001072001061140360010360010629603600107200106478036001036001066600360010720010684203600103600107024036001072001072060360010360010738803600107200107577036001036001077590360010720010794103600103600108123036001072001083050360010360010848703600107200108669036001036001088510360010720010903303600103600109215036001072001093970360010360010958603600107200109796036001036001099500360010720011016003600103600110314036001072001105240360010360011067803600107200110895036001036001110420360010720011125903600103600111406036001072001116230360010360011177703600107200111987036001036001121410360010720011235103600103600112505036001072001127220360010360011286903600107200113086036001036001132330360010720011345003600103600113597036001072001138140360010360011396803600107200114178036001036001143320360010720011454203600103600114696036001072001149130360010360011506003600107200115277036001036001154240360010720011564103600103600115795036001072001160050360010360011615903600107200116369036001036001165230360010720011673303600103600116887036001072001171040360010360011725103600107200117468036001036001176150360010720011783203600103600117986036001072001181960360010360011835003600107200118560036001036001187140360010720011893103600103600119078036001072001192950360010360011944203600107200119659036001036001198130360010720012002303600103600120177036001072001203870360010360012054103600107200120751036001036001209050360010720012112203600103600121269036001072001214860360010360012163303600107200121850036001036001220040360010720012221403600103600122368036001072001225780360010360012273203600107200122949036001036001230960360010720012331303600103600123460036001072001236770360010360012382403600107200124041036001036001241950360010720012440503600103600124559036001072001247690360010360012492303600107200125140036001036001252870360010720012550403600103600125651036001072001258680360010360012602203600107200126232036001036001263860360010720012659603600103600126750036001072001269600360010360012711403600107200127331036001036001274780360010720012769503600103600127842036001072001280590360010360012821303600107200128423036001036001285770360010720012878703600103600128941036001072001291580360010360012930503600107200129522036001036001296690360010720012988603600103600130040036001072001302500360010360013040403600107200130614036001036001307680360010720013097803600103600131132036001072001313490360010360013149603600107200131713036001036001318600360010720013207703600103600132231036001072001324410360010360013259503600107200132805036001036001329590360010720013317603600103600133323036001072001335400360010360013368703600107200133904036001036001340510360010720013426803600103600134422036001072001346320360010360013478603600107200134996036001036001351500360010720013536703600103600135514036001072001357310360010360013587803600107200136095036001036001362490360010720013645903600103600136613036001072001368230360010360013697703600107200137187036001036001373410360010720013755803600103600137705036001072001379220360010360013806903600107200138286036001036001384400360010720013865003600103600138804036001072001390140360010360013916803600107200139385036001036001395320360010720013974903600103600139896036001072001401130360010360014026703600107200140477036001036001406310360010720014084103600103600140995036001072001412050360010360014135903600107200141576036001036001417230360010720014194003600103600142087036001072001423040360010360014245803600107200142668036001036001428220360010720014303203600103600143186036001072001434030360010360014355003600107200143767036001036001439140360010720014413103600103600144278036001072001444950360010360014464903600107200144859036001036001450130360010720014522303600103600145377036001072001455940360010360014574103600107200145958036001036001461050360010720014632203600103600146476036001072001466860360010360014684003600107200147050036001036001472040360010720014741403600103600">>,
       <<3484, "0721818291610360008043082800107200080549792001036000807318280010720008091479200103600081074828001072000812857920010360008143182800107200081648792001036000818168280010720008199879200103600089207828001072000900780360010360009022503600107200090414036001036000905950360010720009076303600103600090960036001072000911258280010360009130903600107200091512036001036000916728280010720009187582800103600092023036001072000922400360010360009867982800107200098805792001036000990508280010720009916982800103600099414828001072000995338280010360009978582800107200099904828001036001001498280010720010026882800103600100506828001072001006328280010360010087782800107200101003828001036001011848280010720010136682800103600101570828001072001017188280010360010193503600107200102089000001036001022990360010720010245300000103600102663036001072001028170000010360010302703600107200103181000001036001033910360010720010354500000103600103742036001072001039160000010360010410503600107200104287036001036001044690360010720010465103600103600104833036001072001050150360010360010519703600107200105386036001036001055680360010720010575003600103600105932036001072001061140360010360010629603600107200106478036001036001066600360010720010684203600103600107024036001072001072060360010360010738803600107200107577036001036001077590360010720010794103600103600108123036001072001083050360010360010848703600107200108669036001036001088510360010720010903303600103600109215036001072001093970360010360010958603600107200109796036001036001099500360010720011016003600103600110314036001072001105240360010360011067803600107200110895036001036001110420360010720011125903600103600111406036001072001116230360010360011177703600107200111987036001036001121410360010720011235103600103600112505036001072001127220360010360011286903600107200113086036001036001132330360010720011345003600103600113597036001072001138140360010360011396803600107200114178036001036001143320360010720011454203600103600114696036001072001149130360010360011506003600107200115277036001036001154240360010720011564103600103600115795036001072001160050360010360011615903600107200116369036001036001165230360010720011673303600103600116887036001072001171040360010360011725103600107200117468036001036001176150360010720011783203600103600117986036001072001181960360010360011835003600107200118560036001036001187140360010720011893103600103600119078036001072001192950360010360011944203600107200119659036001036001198130360010720012002303600103600120177036001072001203870360010360012054103600107200120751036001036001209050360010720012112203600103600121269036001072001214860360010360012163303600107200121850036001036001220040360010720012221403600103600122368036001072001225780360010360012273203600107200122949036001036001230960360010720012331303600103600123460036001072001236770360010360012382403600107200124041036001036001241950360010720012440503600103600124559036001072001247690360010360012492303600107200125140036001036001252870360010720012550403600103600125651036001072001258680360010360012602203600107200126232036001036001263860360010720012659603600103600126750036001072001269600360010360012711403600107200127331036001036001274780360010720012769503600103600127842036001072001280590360010360012821303600107200128423036001036001285770360010720012878703600103600128941036001072001291580360010360012930503600107200129522036001036001296690360010720012988603600103600130040036001072001302500360010360013040403600107200130614036001036001307680360010720013097803600103600131132036001072001313490360010360013149603600107200131713036001036001318600360010720013207703600103600132231036001072001324410360010360013259503600107200132805036001036001329590360010720013317603600103600133323036001072001335400360010360013368703600107200133904036001036001340510360010720013426803600103600134422036001072001346320360010360013478603600107200134996036001036001351500360010720013536703600103600135514036001072001357310360010360013587803600107200136095036001036001362490360010720013645903600103600136613036001072001368230360010360013697703600107200137187036001036001373410360010720013755803600103600137705036001072001379220360010360013806903600107200138286036001036001384400360010720013865003600103600138804036001072001390140360010360013916803600107200139385036001036001395320360010720013974903600103600139896036001072001401130360010360014026703600107200140477036001036001406310360010720014084103600103600140995036001072001412050360010360014135903600107200141576036001036001417230360010720014194003600103600142087036001072001423040360010360014245803600107200142668036001036001428220360010720014303203600103600143186036001072001434030360010360014355003600107200143767036001036001439140360010720014413103600103600144278036001072001444950360010360014464903600107200144859036001036001450130360010720014522303600103600145377036001072001455940360010360014574103600107200145958036001036001461050360010720014632203600103600146476036001072001466860360010360014684003600107200147050036001036001472040360010720014741403600103600">>,
       <<6616, "06712779784106600083319798001072000855607920011080008958575600107200090078036001036000902250360010720009041403600103600090596036001072000906867920011080010410775600114400104290720001108001044727560011440010465572000110800104837756001144001050207200011080010520375600114400105385828001108001055678280011440010574982800110800105931828001144001061138280011080010629582800114400106477828001108001066598280011440010684182800110800107023828001144001072058280011080010794100000107200108123000001108001083050000010720010848700000110800108669000001072001088510000011080010903300000107200109215000001108001093970000010720010958600000110800109796000001072001099500000011080011016000000107200110314000001108001105240000010720011067800000110800110895000001072001110420000011080011125900000107200111406000001108001116230000010720011177700000110800111987000001072001121410000011080011235100000107200112505000001108001127220000010720011286900000110800113086000001072001132330000011080011345000000107200113597000001108001138140000010720011396800000110800114178000001072001143320000011080011454200000107200114696000001108001149130000010720011506000000110800">>,
       <<1772, "071662846281005610785368583910000008044182800103600080550828001000000807248280010360008092182800100000081074828001036000812858280010000008143182800103600081649828001000000817818280010360008203382800100000082175828001036000824008280010000008255182800103600082747828001000000829788280010360008311182800100000083286828001036000834758280010000008365782800103600083839828001000000840358280010360008420382800100000084392828001036000845678280010000008476382800103600084938828001000000851348280010360008530282800100000085491828001036000856668280010000008586282800103600086030828001000000862128280010360008639482800100000086569828001036000867658280010000008694782800103600087129828001000000873048280010360008749382800100000087689828001036000878578280010000008803982800103600088221828001000000883968280010360008858582800100000088781828001036000889988280010000008909707200103600089531828001072000896857920010360008983982800107200090078036001036000902250360010720009041403600103600090596036001072000907838280010360009096003600107200091127036001036001022780000010720010245982800103600102649036001072001028240360010360010301303600107200103195036001036001033770360010720010355903600103600103748036001072001039230360010360010410503600107200104287036001036001044690360010720010465103600103600104833036001072001050150360010360010519703600107200105386036001036001055680360010720010575003600103600105932036001072001061140360010360010629603600107200106478036001036001066600360010720010684203600103600107024036001072001072060360010360010738803600107200107577036001036001077590360010720010794103600103600108123036001072001083050360010360010848703600107200108669036001036001088510360010720010903303600103600109215036001072001093970360010360010958603600107200109796036001036001099500360010720011016003600103600110314036001072001105240360010360011067803600107200110895036001036001110420360010720011125903600103600111406036001072001116230360010360011177703600107200111987036001036001121410360010720011235103600103600112505036001072001127220360010360011286903600107200113086036001036001132330360010720011345003600103600113597036001072001138140360010360011396803600107200114178036001036001143320360010720011454203600103600114696036001072001149130360010360011506003600107200115277036001036001154240360010720011564103600103600115795036001072001160050360010360011615903600107200116369036001036001165230360010720011673303600103600116887036001072001171040360010360011725103600107200117468036001036001176150360010720011783203600103600117986036001072001181960360010360011835003600107200118560036001036001187140360010720011893103600103600119078036001072001192950360010360011944203600107200119659036001036001198130360010720012002303600103600120177036001072001203870360010360012054103600107200120751036001036001209050360010720012112203600103600121269036001072001214860360010360012163303600107200121850036001036001220040360010720012221403600103600122368036001072001225780360010360012273203600107200122949036001036001230960360010720012331303600103600123460036001072001236770360010360012382403600107200124041036001036001241950360010720012440503600103600124559036001072001247690360010360012492303600107200125140036001036001252870360010720012550403600103600125651036001072001258680360010360012602203600107200126232036001036001263860360010720012659603600103600126750036001072001269600360010360012711403600107200127331036001036001274780360010720012769503600103600127842036001072001280590360010360012821303600107200128423036001036001285770360010720012878703600103600128941036001072001291580360010360012930503600107200129522036001036001296690360010720012988603600103600130040036001072001302500360010360013040403600107200130614036001036001307680360010720013097803600103600131132036001072001313490360010360013149603600107200131713036001036001318600360010720013207703600103600132231036001072001324410360010360013259503600107200132805036001036001329590360010720013317603600103600133323036001072001335400360010360013368703600107200133904036001036001340510360010720013426803600103600134422036001072001346320360010360013478603600107200134996036001036001351500360010720013536703600103600135514036001072001357310360010360013587803600107200136095036001036001362490360010720013645903600103600136613036001072001368230360010360013697703600107200137187036001036001373410360010720013755803600103600137705036001072001379220360010360013806903600107200138286036001036001384400360010720013865003600103600138804036001072001390140360010360013916803600107200139385036001036001395320360010720013974903600103600139896036001072001401130360010360014026703600107200140477036001036001406310360010720014084103600103600140995036001072001412050360010360014135903600107200141576036001036001417230360010720014194003600103600142087036001072001423040360010360014245803600107200142668036001036001428220360010720014303203600103600143186036001072001434030360010360014355003600107200143767036001036001439140360010720014413103600103600144278036001072001444950360010360014464903600107200144859036001036001450130360010720014522303600103600145377036001072001455940360010360014574103600107200145958036001036001461050360010720014632203600103600146476036001072001466860360010360014684003600107200147050036001036001472040360010720014741403600103600">>,
       <<9017, "08045977383109079080823737211126790810027372110907908115770121116279081264737211126790815227012111627908155300000114400081598720001108000821477200011440008218168400118000082345684001144000823757200011080008274075600107200085560792001108001041077560011440010429072000110800104472756001144001046557200011080010483775600114400105020720001108001052037560011440010538582800110800105567828001144001057498280011080010593182800114400106113828001108001062958280011440010647782800110800106659828001144001068418280011080010702382800114400107205828001108001073878280011440010757682800110800107941000001072001080530000011080010812282800114400108304828001108001084868280011440010866882800110800108850828001144001090328280011080010921482800114400109396828001108001095858280011440010979582800110800109949828001144001101598280011080011031382800114400110523828001108001106778280011440011089482800110800111041828001144001112588280011080011140582800114400111622828001108001117768280011440011198682800110800112140828001144001123508280011080011250482800114400112721828001108001128688280011440011308582800110800113232828001144001134498280011080011359682800114400113813828001108001139678280011440011417782800110800114331828001144001145418280011080011469582800114400114912828001108001150598280011440011636879200110800">>,
       <<2580, "07260683820103600080418000001072000805487920010360008926479200107200090078036001036000902250360010720009041403600103600090596036001072000907780360010360009096003600107200091142036001036000960550360010720009624403600103600096426036001072000966080360010360009679003600107200096972036001036000971540360010720009733603600103600097518036001072000977000360010360009788203600107200098071036001036000982880360010720009843503600103600103748036001072001039230360010360010410503600107200104287036001036001044690360010720010465103600103600104833036001072001050150360010360010519703600107200105386036001036001055680360010720010575003600103600105932036001072001061140360010360010629603600107200106478036001036001066600360010720010684203600103600107024036001072001072060360010360010738803600107200107577036001036001077590360010720010794103600103600108123036001072001083050360010360010848703600107200108669036001036001088510360010720010903303600103600109215036001072001093970360010360010958603600107200109796036001036001099500360010720011016003600103600110314036001072001105240360010360011067803600107200110895036001036001110420360010720011125903600103600111406036001072001116230360010360011177703600107200111987036001036001121410360010720011235103600103600112505036001072001127220360010360011286903600107200113086036001036001132330360010720011345003600103600113597036001072001138140360010360011396803600107200114178036001036001143320360010720011454203600103600114696036001072001149130360010360011506003600107200115277036001036001154240360010720011564103600103600115795036001072001160050360010360011615903600107200116369036001036001165230360010720011673303600103600116887036001072001171040360010360011725103600107200117468036001036001176150360010720011783203600103600117986036001072001181960360010360011835003600107200118560036001036001187140360010720011893103600103600119078036001072001192950360010360011944203600107200119659036001036001198130360010720012002303600103600120177036001072001203870360010360012054103600107200120751036001036001209050360010720012112203600103600121269036001072001214860360010360012163303600107200121850036001036001220040360010720012221403600103600122368036001072001225780360010360012273203600107200122949036001036001230960360010720012331303600103600123460036001072001236770360010360012382403600107200124041036001036001241950360010720012440503600103600124559036001072001247690360010360012492303600107200125140036001036001252870360010720012550403600103600125651036001072001258680360010360012602203600107200126232036001036001263860360010720012659603600103600126750036001072001269600360010360012711403600107200127331036001036001274780360010720012769503600103600127842036001072001280590360010360012821303600107200128423036001036001285770360010720012878703600103600128941036001072001291580360010360012930503600107200129522036001036001296690360010720012988603600103600130040036001072001302500360010360013040403600107200130614036001036001307680360010720013097803600103600131132036001072001313490360010360013149603600107200131713036001036001318600360010720013207703600103600132231036001072001324410360010360013259503600107200132805036001036001329590360010720013317603600103600133323036001072001335400360010360013368703600107200133904036001036001340510360010720013426803600103600134422036001072001346320360010360013478603600107200134996036001036001351500360010720013536703600103600135514036001072001357310360010360013587803600107200136095036001036001362490360010720013645903600103600136613036001072001368230360010360013697703600107200137187036001036001373410360010720013755803600103600137705036001072001379220360010360013806903600107200138286036001036001384400360010720013865003600103600138804036001072001390140360010360013916803600107200139385036001036001395320360010720013974903600103600139896036001072001401130360010360014026703600107200140477036001036001406310360010720014084103600103600140995036001072001412050360010360014135903600107200141576036001036001417230360010720014194003600103600142087036001072001423040360010360014245803600107200142668036001036001428220360010720014303203600103600143186036001072001434030360010360014355003600107200143767036001036001439140360010720014413103600103600144278036001072001444950360010360014464903600107200144859036001036001450130360010720014522303600103600145377036001072001455940360010360014574103600107200145958036001036001461050360010720014632203600103600146476036001072001466860360010360014684003600107200147050036001036001472040360010720014741403600103600">>,
       <<561, "078518858391000000804418280010360008055082800100000080724828001036000809218280010000008107482800103600081285828001000000814318280010360008164982800100000081781828001036000820338280010000008217582800103600082400828001000000825518280010360008274782800100000082978828001036000831118280010000008328682800103600083475828001000000836578280010360008383982800100000084035828001036000842038280010000008439282800103600084567828001000000847638280010360008493882800100000085134828001036000853028280010000008549182800103600085666828001000000858628280010360008603082800100000086212828001036000863948280010000008656982800103600086765828001000000869478280010360008712982800100000087304828001036000874938280010000008768982800103600087857828001000000880398280010360008822182800100000088396828001036000885858280010000008878182800103600088998828001000000890970720010360008920779200107200090078036001036000902250360010720009041403600103600090596036001072000907838280010360009096003600107200091127036001036001022780000010720010245982800103600102649036001072001028240360010360010301303600107200103195036001036001033770360010720010355903600103600103748036001072001039230360010360010410503600107200104287036001036001044690360010720010465103600103600104833036001072001050150360010360010519703600107200105386036001036001055680360010720010575003600103600105932036001072001061140360010360010629603600107200106478036001036001066600360010720010684203600103600107024036001072001072060360010360010738803600107200107577036001036001077590360010720010794103600103600108123036001072001083050360010360010848703600107200108669036001036001088510360010720010903303600103600109215036001072001093970360010360010958603600107200109796036001036001099500360010720011016003600103600110314036001072001105240360010360011067803600107200110895036001036001110420360010720011125903600103600111406036001072001116230360010360011177703600107200111987036001036001121410360010720011235103600103600112505036001072001127220360010360011286903600107200113086036001036001132330360010720011345003600103600113597036001072001138140360010360011396803600107200114178036001036001143320360010720011454203600103600114696036001072001149130360010360011506003600107200115277036001036001154240360010720011564103600103600115795036001072001160050360010360011615903600107200116369036001036001165230360010720011673303600103600116887036001072001171040360010360011725103600107200117468036001036001176150360010720011783203600103600117986036001072001181960360010360011835003600107200118560036001036001187140360010720011893103600103600119078036001072001192950360010360011944203600107200119659036001036001198130360010720012002303600103600120177036001072001203870360010360012054103600107200120751036001036001209050360010720012112203600103600121269036001072001214860360010360012163303600107200121850036001036001220040360010720012221403600103600122368036001072001225780360010360012273203600107200122949036001036001230960360010720012331303600103600123460036001072001236770360010360012382403600107200124041036001036001241950360010720012440503600103600124559036001072001247690360010360012492303600107200125140036001036001252870360010720012550403600103600125651036001072001258680360010360012602203600107200126232036001036001263860360010720012659603600103600126750036001072001269600360010360012711403600107200127331036001036001274780360010720012769503600103600127842036001072001280590360010360012821303600107200128423036001036001285770360010720012878703600103600128941036001072001291580360010360012930503600107200129522036001036001296690360010720012988603600103600130040036001072001302500360010360013040403600107200130614036001036001307680360010720013097803600103600131132036001072001313490360010360013149603600107200131713036001036001318600360010720013207703600103600132231036001072001324410360010360013259503600107200132805036001036001329590360010720013317603600103600133323036001072001335400360010360013368703600107200133904036001036001340510360010720013426803600103600134422036001072001346320360010360013478603600107200134996036001036001351500360010720013536703600103600135514036001072001357310360010360013587803600107200136095036001036001362490360010720013645903600103600136613036001072001368230360010360013697703600107200137187036001036001373410360010720013755803600103600137705036001072001379220360010360013806903600107200138286036001036001384400360010720013865003600103600138804036001072001390140360010360013916803600107200139385036001036001395320360010720013974903600103600139896036001072001401130360010360014026703600107200140477036001036001406310360010720014084103600103600140995036001072001412050360010360014135903600107200141576036001036001417230360010720014194003600103600142087036001072001423040360010360014245803600107200142668036001036001428220360010720014303203600103600143186036001072001434030360010360014355003600107200143767036001036001439140360010720014413103600103600144278036001072001444950360010360014464903600107200144859036001036001450130360010720014522303600103600145377036001072001455940360010360014574103600107200145958036001036001461050360010720014632203600103600146476036001072001466860360010360014684003600107200147050036001036001472040360010720014741403600103600">>,
       <<5794, "0811110140610939408126501406105794081462014061093940815130140610579408405880606107200089258792001108000895887560010720009007803600103600090225036001072000904140360010360009059603600107200090778036001036000907888280011080010410775600114400104290720001108001044727560011440010465572000110800104837756001144001050207200011080010520375600114400105385828001108001055678280011440010574982800110800105931828001144001061138280011080010629582800114400106477828001108001066598280011440010684182800110800107206000001072001073880000011080010757700000107200107759000001108001079410000010720010812300000110800108305000001072001084870000011080010866900000107200108851000001108001090330000010720010921500000110800109397000001072001095860000011080010976800000107200109950036001108001101600360010720011031403600110800110524036001072001106780360011080011089503600107200111406036001108001116230360010720011177703600110800111987036001072001121410360011080011235103600107200112505036001108001127220360010720011286903600110800113086036001072001132330360011080011345003600107200113597036001108001138140360010720011396803600110800114178036001072001143320360011080011454203600107200114696036001108001149130360010720011506003600110800115277036001072001154240360011080011564103600107200115795036001108001160050360010720011615903600110800116369036001072001165230360011080011673303600107200116887036001108001171040360010720011725103600110800117468036001072001176150360011080011783203600107200117986036001108001181960360010720011835003600110800118560036001072001187140360011080011893103600107200119078036001108001192950360010720011944203600110800119659036001072001198130360011080012002303600107200120177036001108001203870360010720012054103600110800120751036001072001209050360011080012112203600107200121269036001108001214860360010720012163303600110800121850036001072001220040360011080012221403600107200122368036001108001225780360010720012273203600110800122949036001072001230960360011080012331303600107200123460036001108001236770360010720012382403600110800124041036001072001241950360011080012440503600107200124559036001108001247690360010720012492303600110800125140036001072001252870360011080012550403600107200125651036001108001258680360010720012602203600110800126232036001072001263860360011080012659603600107200126750036001108001269600360010720012711403600110800127331036001072001274780360011080012769503600107200127842036001108001280590360010720012821303600110800128423036001072001285770360011080012878703600107200128941036001108001291580360010720012930503600110800129522036001072001296690360011080012988603600107200130040036001108001302500360010720013040403600110800130614036001072001307680360011080013097803600107200131132036001108001313490360010720013149603600110800131713036001072001318600360011080013207703600107200132231036001108001324410360010720013259503600110800132805036001072001329590360011080013317603600107200133323036001108001335400360010720013368703600110800133904036001072001340510360011080013426803600107200134422036001108001346320360010720013478603600110800134996036001072001351500360011080013536703600107200135514036001108001357310360010720013587803600110800136095036001072001362490360011080013645903600107200136613036001108001368230360010720013697703600110800137187036001072001373410360011080013755803600107200137705036001108001379220360010720013806903600110800138286036001072001384400360011080013865003600107200138804036001108001390140360010720013916803600110800139385036001072001395320360011080013974903600107200139896036001108001401130360010720014026703600110800140477036001072001406310360011080014084103600107200140995036001108001412050360010720014135903600110800141576036001072001417230360011080014194003600107200142087036001108001423040360010720014245803600110800142668036001072001428220360011080014303203600107200143186036001108001434030360010720014355003600110800143767036001072001439140360011080014413103600107200144278036001108001444950360010720014464903600110800144859036001072001450130360011080014522303600107200145377036001108001455940360010720014574103600110800145958036001072001461050360011080014632203600107200146476036001108001466860360010720014684003600110800147050036001072001472040360011080014741403600107200">>,
       <<2996, "0721808280010360008043082800107200080549792001036000807318280010720008091479200103600081074828001072000812857920010360008143182800107200081648792001036000818168280010720008199879200103600089207828001072000900780360010360009022503600107200090414036001036000905960360010720009076303600103600090960036001072000911258280010360009130903600107200091512036001036000916728280010720009187582800103600092023036001072000922400360010360009867982800107200098805792001036000990508280010720009916982800103600099414828001072000995338280010360009978582800107200099904828001036001001498280010720010026882800103600100506828001072001006328280010360010087782800107200101003828001036001012488280010720010136782800103600101605828001072001017318280010360010197682800107200102095828001036001023408280010720010245982800103600102697828001072001028238280010360010306882800107200103194828001036001034328280010720010355882800103600103748036001072001039230360010360010410503600107200104287036001036001044690360010720010465103600103600104833036001072001050150360010360010519703600107200105386036001036001055680360010720010575003600103600105932036001072001061140360010360010629603600107200106478036001036001066600360010720010684203600103600107024036001072001072060360010360010738803600107200107577036001036001077590360010720010794103600103600108123036001072001083050360010360010848703600107200108669036001036001088510360010720010903303600103600109215036001072001093970360010360010958603600107200109796036001036001099500360010720011016003600103600110314036001072001105240360010360011067803600107200110895036001036001110420360010720011125903600103600111406036001072001116230360010360011177703600107200111987036001036001121410360010720011235103600103600112505036001072001127220360010360011286903600107200113086036001036001132330360010720011345003600103600113597036001072001138140360010360011396803600107200114178036001036001143320360010720011454203600103600114696036001072001149130360010360011506003600107200115277036001036001154240360010720011564103600103600115795036001072001160050360010360011615903600107200116369036001036001165230360010720011673303600103600116887036001072001171040360010360011725103600107200117468036001036001176150360010720011783203600103600117986036001072001181960360010360011835003600107200118560036001036001187140360010720011893103600103600119078036001072001192950360010360011944203600107200119659036001036001198130360010720012002303600103600120177036001072001203870360010360012054103600107200120751036001036001209050360010720012112203600103600121269036001072001214860360010360012163303600107200121850036001036001220040360010720012221403600103600122368036001072001225780360010360012273203600107200122949036001036001230960360010720012331303600103600123460036001072001236770360010360012382403600107200124041036001036001241950360010720012440503600103600124559036001072001247690360010360012492303600107200125140036001036001252870360010720012550403600103600125651036001072001258680360010360012602203600107200126232036001036001263860360010720012659603600103600126750036001072001269600360010360012711403600107200127331036001036001274780360010720012769503600103600127842036001072001280590360010360012821303600107200128423036001036001285770360010720012878703600103600128941036001072001291580360010360012930503600107200129522036001036001296690360010720012988603600103600130040036001072001302500360010360013040403600107200130614036001036001307680360010720013097803600103600131132036001072001313490360010360013149603600107200131713036001036001318600360010720013207703600103600132231036001072001324410360010360013259503600107200132805036001036001329590360010720013317603600103600133323036001072001335400360010360013368703600107200133904036001036001340510360010720013426803600103600134422036001072001346320360010360013478603600107200134996036001036001351500360010720013536703600103600135514036001072001357310360010360013587803600107200136095036001036001362490360010720013645903600103600136613036001072001368230360010360013697703600107200137187036001036001373410360010720013755803600103600137705036001072001379220360010360013806903600107200138286036001036001384400360010720013865003600103600138804036001072001390140360010360013916803600107200139385036001036001395320360010720013974903600103600139896036001072001401130360010360014026703600107200140477036001036001406310360010720014084103600103600140995036001072001412050360010360014135903600107200141576036001036001417230360010720014194003600103600142087036001072001423040360010360014245803600107200142668036001036001428220360010720014303203600103600143186036001072001434030360010360014355003600107200143767036001036001439140360010720014413103600103600144278036001072001444950360010360014464903600107200144859036001036001450130360010720014522303600103600145377036001072001455940360010360014574103600107200145958036001036001461050360010720014632203600103600146476036001072001466860360010360014684003600107200147050036001036001472040360010720014741403600103600">>,
       <<12020, "081553000001108000855607560011440010410772000118000104290684001144001044727200011800010465568400114400104837720001180001050206840011440010520372000118000105385792001144001055677920011800010574979200114400105931792001180001061137920011440010629579200118000106477792001144001066597920011800010684179200114400107205828001108001073878280011440010757682800110800107962000001144001081227920011800010830479200114400108486792001180001086687920011440010885079200118000109032792001144001092147920011800010939679200114400109585792001180001097957920011440010994979200118000110159792001144001103137920011800011052379200114400110677792001180001108947920011440011104179200118000111258792001144001114057920011800011162279200114400111776792001180001119867920011440011214079200118000112350792001144001125047920011800011272179200114400112868792001180001130857920011440011323279200118000113449792001144001135967920011800011381379200114400113967792001180001141777920011440011433179200118000114541792001144001149128280011080011505982800114400">>,
       <<4420, "068588819801036000895157920010720009007803600103600090225036001072000904140360010360009059603600107200090778036001036000909600360010720009112703600103600104833036001072001050150360010360010519703600107200105386036001036001055680360010720010575003600103600105932036001072001061140360010360010629603600107200106478036001036001066600360010720010684203600103600107024036001072001072060360010360010738803600107200107577036001036001077590360010720010794103600103600108123036001072001083050360010360010848703600107200108669036001036001088510360010720010903303600103600109215036001072001093970360010360010958603600107200109796036001036001099500360010720011016003600103600110314036001072001105240360010360011067803600107200110895036001036001110420360010720011125903600103600111406036001072001116230360010360011177703600107200111987036001036001121410360010720011235103600103600112505036001072001127220360010360011286903600107200113086036001036001132330360010720011345003600103600113597036001072001138140360010360011396803600107200114178036001036001143320360010720011454203600103600114696036001072001149130360010360011506003600107200115277036001036001154240360010720011564103600103600115795036001072001160050360010360011615903600107200116369036001036001165230360010720011673303600103600116887036001072001171040360010360011725103600107200117468036001036001176150360010720011783203600103600117986036001072001181960360010360011835003600107200118560036001036001187140360010720011893103600103600119078036001072001192950360010360011944203600107200119659036001036001198130360010720012002303600103600120177036001072001203870360010360012054103600107200120751036001036001209050360010720012112203600103600121269036001072001214860360010360012163303600107200121850036001036001220040360010720012221403600103600122368036001072001225780360010360012273203600107200122949036001036001230960360010720012331303600103600123460036001072001236770360010360012382403600107200124041036001036001241950360010720012440503600103600124559036001072001247690360010360012492303600107200125140036001036001252870360010720012550403600103600125651036001072001258680360010360012602203600107200126232036001036001263860360010720012659603600103600126750036001072001269600360010360012711403600107200127331036001036001274780360010720012769503600103600127842036001072001280590360010360012821303600107200128423036001036001285770360010720012878703600103600128941036001072001291580360010360012930503600107200129522036001036001296690360010720012988603600103600130040036001072001302500360010360013040403600107200130614036001036001307680360010720013097803600103600131132036001072001313490360010360013149603600107200131713036001036001318600360010720013207703600103600132231036001072001324410360010360013259503600107200132805036001036001329590360010720013317603600103600133323036001072001335400360010360013368703600107200133904036001036001340510360010720013426803600103600134422036001072001346320360010360013478603600107200134996036001036001351500360010720013536703600103600135514036001072001357310360010360013587803600107200136095036001036001362490360010720013645903600103600136613036001072001368230360010360013697703600107200137187036001036001373410360010720013755803600103600137705036001072001379220360010360013806903600107200138286036001036001384400360010720013865003600103600138804036001072001390140360010360013916803600107200139385036001036001395320360010720013974903600103600139896036001072001401130360010360014026703600107200140477036001036001406310360010720014084103600103600140995036001072001412050360010360014135903600107200141576036001036001417230360010720014194003600103600142087036001072001423040360010360014245803600107200142668036001036001428220360010720014303203600103600143186036001072001434030360010360014355003600107200143767036001036001439140360010720014413103600103600144278036001072001444950360010360014464903600107200144859036001036001450130360010720014522303600103600145377036001072001455940360010360014574103600107200145958036001036001461050360010720014632203600103600146476036001072001466860360010360014684003600107200147050036001036001472040360010720014741403600103600">>,
       <<11058, "0815530000011080008556075600114400104107720001180001042906840011440010447272000118000104655684001144001048377200011800010502068400114400105203720001180001053857920011440010556779200118000105749792001144001059317920011800010611379200114400106295792001180001064777920011440010684182800110800107023828001144001072058280011080010738782800114400107576828001108001077588280011440010830482800110800108486828001144001086688280011080010885082800114400109032828001108001092148280011440010939682800110800109585828001144001097958280011080010994982800114400110159828001108001103138280011440011052382800110800110677828001144001108948280011080011104182800114400111258828001108001114058280011440011162282800110800111776828001144001119868280011080011214082800114400112350828001108001125048280011440011272182800110800112868828001144001130858280011080011323282800114400113449828001108001135968280011440011381382800110800113967828001144001141778280011080011433182800114400114541828001108001146958280011440011491282800110800115059828001144001163687920011080011713882800114400">>,
       <<8184, "0671277821610816008331978240107200085560792001108000897117560010720009007803600103600090225036001072000904140360010360009059603600107200090605792001108001041077560011440010429072000110800104472756001144001046557200011080010483775600114400105020720001108001052037560011440010538582800110800105567828001144001057498280011080010593182800114400106113828001108001062958280011440010647782800110800106659828001144001068418280011080010702382800114400107205828001108001074858280010720010812300000110800108305000001072001084870000011080010866900000107200108851000001108001088857560011440010903282800110800109214828001144001093968280011080010958575600114400109796000001108001101600360010720011031403600110800110524036001072001106780360011080011089503600107200111042036001108001112590360010720011140603600110800111623036001072001117770360011080011198703600107200112141036001108001123510360010720011250503600110800112722036001072001128690360011080011308603600107200113233036001108001134500360010720011359703600110800113814036001072001139680360011080011417803600107200114332036001108001145420360010720011469603600110800114913036001072001150600360011080011527703600107200115424036001108001156410360010720011579503600110800116005036001072001161590000011440011636879200110800">>,
       <<5144, "068588812561036000895157920010720009007803600103600090225036001072000904140360010360009059603600107200090778036001036000909600360010720009112703600103600104833036001072001050150360010360010519703600107200105386036001036001055680360010720010575003600103600105932036001072001061140360010360010629603600107200106478036001036001066600360010720010684203600103600107024036001072001072060360010360010738803600107200107577036001036001077590360010720010794103600103600108123036001072001083050360010360010848703600107200108669036001036001088510360010720010903303600103600109215036001072001093970360010360010958603600107200109796036001036001099500360010720011016003600103600110314036001072001105240360010360011067803600107200110895036001036001110420360010720011125903600103600111406036001072001116230360010360011177703600107200111987036001036001121410360010720011235103600103600112505036001072001127220360010360011286903600107200113086036001036001132330360010720011345003600103600113597036001072001138140360010360011396803600107200114178036001036001143320360010720011454203600103600114696036001072001149130360010360011506003600107200115277036001036001154240360010720011564103600103600115795036001072001160050360010360011615903600107200116369036001036001165230360010720011673303600103600116887036001072001171040360010360011725103600107200117468036001036001176150360010720011783203600103600117986036001072001181960360010360011835003600107200118560036001036001187140360010720011893103600103600119078036001072001192950360010360011944203600107200119659036001036001198130360010720012002303600103600120177036001072001203870360010360012054103600107200120751036001036001209050360010720012112203600103600121269036001072001214860360010360012163303600107200121850036001036001220040360010720012221403600103600122368036001072001225780360010360012273203600107200122949036001036001230960360010720012331303600103600123460036001072001236770360010360012382403600107200124041036001036001241950360010720012440503600103600124559036001072001247690360010360012492303600107200125140036001036001252870360010720012550403600103600125651036001072001258680360010360012602203600107200126232036001036001263860360010720012659603600103600126750036001072001269600360010360012711403600107200127331036001036001274780360010720012769503600103600127842036001072001280590360010360012821303600107200128423036001036001285770360010720012878703600103600128941036001072001291580360010360012930503600107200129522036001036001296690360010720012988603600103600130040036001072001302500360010360013040403600107200130614036001036001307680360010720013097803600103600131132036001072001313490360010360013149603600107200131713036001036001318600360010720013207703600103600132231036001072001324410360010360013259503600107200132805036001036001329590360010720013317603600103600133323036001072001335400360010360013368703600107200133904036001036001340510360010720013426803600103600134422036001072001346320360010360013478603600107200134996036001036001351500360010720013536703600103600135514036001072001357310360010360013587803600107200136095036001036001362490360010720013645903600103600136613036001072001368230360010360013697703600107200137187036001036001373410360010720013755803600103600137705036001072001379220360010360013806903600107200138286036001036001384400360010720013865003600103600138804036001072001390140360010360013916803600107200139385036001036001395320360010720013974903600103600139896036001072001401130360010360014026703600107200140477036001036001406310360010720014084103600103600140995036001072001412050360010360014135903600107200141576036001036001417230360010720014194003600103600142087036001072001423040360010360014245803600107200142668036001036001428220360010720014303203600103600143186036001072001434030360010360014355003600107200143767036001036001439140360010720014413103600103600144278036001072001444950360010360014464903600107200144859036001036001450130360010720014522303600103600145377036001072001455940360010360014574103600107200145958036001036001461050360010720014632203600103600146476036001072001466860360010360014684003600107200147050036001036001472040360010720014741403600103600">>,
       <<5596, "06712780804107016072574793841072000900780360010360009022503600107200090414036001036000905960360010720009077803600103600090960072001072001033767560011080010355979200107200103747756001108001039237920010720010411175600110800104286828001072001044757560011080010465100000107200104833000001108001050150000010720010519700000110800105386000001072001055680000011080010575000000107200105932000001108001061140000010720010629600000110800106478000001072001066600000011080010684200000107200107024000001108001072060000010720010738800000110800107577000001072001077587920011080010794075600107200108122792001108001083047560010720010848679200110800108668756001072001088507920011080010903275600107200109214792001108001093967560010720010958579200110800109795756001072001099500360011080011016003600107200110314036001108001105240360010720011067803600110800110895036001072001110420360011080011125903600107200111406036001108001116230360010720011177703600110800111987036001072001121410360011080011235103600107200112505036001108001127220360010720011286903600110800113086036001072001132330360011080011345003600107200113597036001108001138140360010720011396803600110800114178036001072001143320360011080011454203600107200114696036001108001149130360010720011506003600110800115277036001072001154240360011080011564103600107200115795036001108001160050360010720011615903600110800116369036001072001165230360011080011673303600107200116887036001108001171040360010720011725103600110800117468036001072001176150360011080011783203600107200117986036001108001181960360010720011835003600110800118560036001072001187140360011080011893103600107200119078036001108001192950360010720011944203600110800119659036001072001198130360011080012002303600107200120177036001108001203870360010720012054103600110800120751036001072001209050360011080012112203600107200121269036001108001214860360010720012163303600110800121850036001072001220040360011080012221403600107200122368036001108001225780360010720012273203600110800122949036001072001230960360011080012331303600107200123460036001108001236770360010720012382403600110800124041036001072001241950360011080012440503600107200124559036001108001247690360010720012492303600110800125140036001072001252870360011080012550403600107200125651036001108001258680360010720012602203600110800126232036001072001263860360011080012659603600107200126750036001108001269600360010720012711403600110800127331036001072001274780360011080012769503600107200127842036001108001280590360010720012821303600110800128423036001072001285770360011080012878703600107200128941036001108001291580360010720012930503600110800129522036001072001296690360011080012988603600107200130040036001108001302500360010720013040403600110800130614036001072001307680360011080013097803600107200131132036001108001313490360010720013149603600110800131713036001072001318600360011080013207703600107200132231036001108001324410360010720013259503600110800132805036001072001329590360011080013317603600107200133323036001108001335400360010720013368703600110800133904036001072001340510360011080013426803600107200134422036001108001346320360010720013478603600110800134996036001072001351500360011080013536703600107200135514036001108001357310360010720013587803600110800136095036001072001362490360011080013645903600107200136613036001108001368230360010720013697703600110800137187036001072001373410360011080013755803600107200137705036001108001379220360010720013806903600110800138286036001072001384400360011080013865003600107200138804036001108001390140360010720013916803600110800139385036001072001395320360011080013974903600107200139896036001108001401130360010720014026703600110800140477036001072001406310360011080014084103600107200140995036001108001412050360010720014135903600110800141576036001072001417230360011080014194003600107200142087036001108001423040360010720014245803600110800142668036001072001428220360011080014303203600107200143186036001108001434030360010720014355003600110800143767036001072001439140360011080014413103600107200144278036001108001444950360010720014464903600110800144859036001072001450130360011080014522303600107200145377036001108001455940360010720014574103600110800145958036001072001461050360011080014632203600107200146476036001108001466860360010720014684003600110800147050036001072001472040360011080014741403600107200">>,
       <<4332, "06676282068103614074432827861036000804107920010720008054982800103600103748036001072001039230360010360010410503600107200104287036001036001044690360010720010465103600103600104833036001072001050150360010360010519703600107200105386036001036001055680360010720010575003600103600105932036001072001061140360010360010629603600107200106478036001036001066600360010720010684203600103600107024036001072001072060360010360010738803600107200107577036001036001077590360010720010794103600103600108123036001072001083050360010360010848703600107200108669036001036001088510360010720010903303600103600109215036001072001093970360010360010958603600107200109796036001036001099500360010720011016003600103600110314036001072001105240360010360011067803600107200110895036001036001110420360010720011125903600103600111406036001072001116230360010360011177703600107200111987036001036001121410360010720011235103600103600112505036001072001127220360010360011286903600107200113086036001036001132330360010720011345003600103600113597036001072001138140360010360011396803600107200114178036001036001143320360010720011454203600103600114696036001072001149130360010360011506003600107200115277036001036001154240360010720011564103600103600115795036001072001160050360010360011615903600107200116369036001036001165230360010720011673303600103600116887036001072001171040360010360011725103600107200117468036001036001176150360010720011783203600103600117986036001072001181960360010360011835003600107200118560036001036001187140360010720011893103600103600119078036001072001192950360010360011944203600107200119659036001036001198130360010720012002303600103600120177036001072001203870360010360012054103600107200120751036001036001209050360010720012112203600103600121269036001072001214860360010360012163303600107200121850036001036001220040360010720012221403600103600122368036001072001225780360010360012273203600107200122949036001036001230960360010720012331303600103600123460036001072001236770360010360012382403600107200124041036001036001241950360010720012440503600103600124559036001072001247690360010360012492303600107200125140036001036001252870360010720012550403600103600125651036001072001258680360010360012602203600107200126232036001036001263860360010720012659603600103600126750036001072001269600360010360012711403600107200127331036001036001274780360010720012769503600103600127842036001072001280590360010360012821303600107200128423036001036001285770360010720012878703600103600128941036001072001291580360010360012930503600107200129522036001036001296690360010720012988603600103600130040036001072001302500360010360013040403600107200130614036001036001307680360010720013097803600103600131132036001072001313490360010360013149603600107200131713036001036001318600360010720013207703600103600132231036001072001324410360010360013259503600107200132805036001036001329590360010720013317603600103600133323036001072001335400360010360013368703600107200133904036001036001340510360010720013426803600103600134422036001072001346320360010360013478603600107200134996036001036001351500360010720013536703600103600135514036001072001357310360010360013587803600107200136095036001036001362490360010720013645903600103600136613036001072001368230360010360013697703600107200137187036001036001373410360010720013755803600103600137705036001072001379220360010360013806903600107200138286036001036001384400360010720013865003600103600138804036001072001390140360010360013916803600107200139385036001036001395320360010720013974903600103600139896036001072001401130360010360014026703600107200140477036001036001406310360010720014084103600103600140995036001072001412050360010360014135903600107200141576036001036001417230360010720014194003600103600142087036001072001423040360010360014245803600107200142668036001036001428220360010720014303203600103600143186036001072001434030360010360014355003600107200143767036001036001439140360010720014413103600103600144278036001072001444950360010360014464903600107200144859036001036001450130360010720014522303600103600145377036001072001455940360010360014574103600107200145958036001036001461050360010720014632203600103600146476036001072001466860360010360014684003600107200147050036001036001472040360010720014741403600103600">>,
       <<5940, "0810378046010360008111103600107200081265036001036000815528280010594008222280460107200089259792001108000896647560010720009007803600103600090225036001072000904140360010360009059603600107200090767792001108001041077560011440010429072000110800104472756001144001046557200011080010483775600114400105020720001108001052037560011440010538582800110800105567828001144001057498280011080010593182800114400106113828001108001062958280011440010647782800110800106659828001144001068418280011080010720600000107200107388000001108001075770000010720010775900000110800107941000001072001081230000011080010830500000107200108487000001108001086690000010720010885100000110800109033000001072001092150000011080010939700000107200109586000001108001097960000010720010995000000110800110160000001072001103140000011080011052403600107200110678036001108001108950360010720011177703600110800111987036001072001121410360011080011235103600107200112505036001108001127220360010720011286903600110800113086036001072001132330360011080011345003600107200113597036001108001138140360010720011396803600110800114178036001072001143320360011080011454203600107200114696036001108001149130360010720011506003600110800115277036001072001154240360011080011564103600107200115795036001108001160050360010720011615903600110800116369036001072001165230360011080011673303600107200116887036001108001171040360010720011725103600110800117468036001072001176150360011080011783203600107200117986036001108001181960360010720011835003600110800118560036001072001187140360011080011893103600107200119078036001108001192950360010720011944203600110800119659036001072001198130360011080012002303600107200120177036001108001203870360010720012054103600110800120751036001072001209050360011080012112203600107200121269036001108001214860360010720012163303600110800121850036001072001220040360011080012221403600107200122368036001108001225780360010720012273203600110800122949036001072001230960360011080012331303600107200123460036001108001236770360010720012382403600110800124041036001072001241950360011080012440503600107200124559036001108001247690360010720012492303600110800125140036001072001252870360011080012550403600107200125651036001108001258680360010720012602203600110800126232036001072001263860360011080012659603600107200126750036001108001269600360010720012711403600110800127331036001072001274780360011080012769503600107200127842036001108001280590360010720012821303600110800128423036001072001285770360011080012878703600107200128941036001108001291580360010720012930503600110800129522036001072001296690360011080012988603600107200130040036001108001302500360010720013040403600110800130614036001072001307680360011080013097803600107200131132036001108001313490360010720013149603600110800131713036001072001318600360011080013207703600107200132231036001108001324410360010720013259503600110800132805036001072001329590360011080013317603600107200133323036001108001335400360010720013368703600110800133904036001072001340510360011080013426803600107200134422036001108001346320360010720013478603600110800134996036001072001351500360011080013536703600107200135514036001108001357310360010720013587803600110800136095036001072001362490360011080013645903600107200136613036001108001368230360010720013697703600110800137187036001072001373410360011080013755803600107200137705036001108001379220360010720013806903600110800138286036001072001384400360011080013865003600107200138804036001108001390140360010720013916803600110800139385036001072001395320360011080013974903600107200139896036001108001401130360010720014026703600110800140477036001072001406310360011080014084103600107200140995036001108001412050360010720014135903600110800141576036001072001417230360011080014194003600107200142087036001108001423040360010720014245803600110800142668036001072001428220360011080014303203600107200143186036001108001434030360010720014355003600110800143767036001072001439140360011080014413103600107200144278036001108001444950360010720014464903600110800144859036001072001450130360011080014522303600107200145377036001108001455940360010720014574103600110800145958036001072001461050360011080014632203600107200146476036001108001466860360010720014684003600110800147050036001072001472040360011080014741403600107200">>,
       <<4760, "0795458164010360008920882800107200090078036001036000902250360010720009023703600103600101583828001072001017347920010360010194582800107200102099792001036001023128280010720010246679200103600102683828001072001028307920010360010304682800107200103194792001036001034108280010720010355879200103600103774828001072001039287920010360010413282800107200104286792001036001045038280010720010465779200103600104854828001072001050207920010360010520382800107200105386036001036001055680360010720010575003600103600105932036001072001061140360010360010629603600107200106478036001036001066600360010720010684203600103600107024036001072001072060360010360010738803600107200107577036001036001077590360010720010794103600103600108123036001072001083050360010360010848703600107200108669036001036001088510360010720010903303600103600109215036001072001093970360010360010958603600107200109796036001036001099500360010720011016003600103600110314036001072001105240360010360011067803600107200110895036001036001110420360010720011125903600103600111406036001072001116230360010360011177703600107200111987036001036001121410360010720011235103600103600112505036001072001127220360010360011286903600107200113086036001036001132330360010720011345003600103600113597036001072001138140360010360011396803600107200114178036001036001143320360010720011454203600103600114696036001072001149130360010360011506003600107200115277036001036001154240360010720011564103600103600115795036001072001160050360010360011615903600107200116369036001036001165230360010720011673303600103600116887036001072001171040360010360011725103600107200117468036001036001176150360010720011783203600103600117986036001072001181960360010360011835003600107200118560036001036001187140360010720011893103600103600119078036001072001192950360010360011944203600107200119659036001036001198130360010720012002303600103600120177036001072001203870360010360012054103600107200120751036001036001209050360010720012112203600103600121269036001072001214860360010360012163303600107200121850036001036001220040360010720012221403600103600122368036001072001225780360010360012273203600107200122949036001036001230960360010720012331303600103600123460036001072001236770360010360012382403600107200124041036001036001241950360010720012440503600103600124559036001072001247690360010360012492303600107200125140036001036001252870360010720012550403600103600125651036001072001258680360010360012602203600107200126232036001036001263860360010720012659603600103600126750036001072001269600360010360012711403600107200127331036001036001274780360010720012769503600103600127842036001072001280590360010360012821303600107200128423036001036001285770360010720012878703600103600128941036001072001291580360010360012930503600107200129522036001036001296690360010720012988603600103600130040036001072001302500360010360013040403600107200130614036001036001307680360010720013097803600103600131132036001072001313490360010360013149603600107200131713036001036001318600360010720013207703600103600132231036001072001324410360010360013259503600107200132805036001036001329590360010720013317603600103600133323036001072001335400360010360013368703600107200133904036001036001340510360010720013426803600103600134422036001072001346320360010360013478603600107200134996036001036001351500360010720013536703600103600135514036001072001357310360010360013587803600107200136095036001036001362490360010720013645903600103600136613036001072001368230360010360013697703600107200137187036001036001373410360010720013755803600103600137705036001072001379220360010360013806903600107200138286036001036001384400360010720013865003600103600138804036001072001390140360010360013916803600107200139385036001036001395320360010720013974903600103600139896036001072001401130360010360014026703600107200140477036001036001406310360010720014084103600103600140995036001072001412050360010360014135903600107200141576036001036001417230360010720014194003600103600142087036001072001423040360010360014245803600107200142668036001036001428220360010720014303203600103600143186036001072001434030360010360014355003600107200143767036001036001439140360010720014413103600103600144278036001072001444950360010360014464903600107200144859036001036001450130360010720014522303600103600145377036001072001455940360010360014574103600107200145958036001036001461050360010720014632203600103600146476036001072001466860360010360014684003600107200147050036001036001472040360010720014741403600103600">>,
       <<11616, "08155300000110800085560756001144001041077200011800010429068400114400104472720001180001046556840011440010483772000118000105020684001144001052037200011800010538579200114400105567792001180001057497920011440010593179200118000106113792001144001062957920011800010647779200114400106659792001180001068417920011440010720582800110800107387828001144001075768280011080010794100000107200108053000001108001081228280011440010830482800110800108486828001144001086688280011080010885082800114400109032828001108001092148280011440010939682800110800109585828001144001097958280011080010994982800114400110159828001108001103138280011440011052382800110800110677828001144001108948280011080011104182800114400111258828001108001114058280011440011162282800110800111776828001144001119868280011080011214082800114400112350828001108001125048280011440011272182800110800112868828001144001130858280011080011323282800114400113449828001108001135968280011440011381382800110800113967828001144001141778280011080011433182800114400114541828001108001146958280011440011491282800110800115059828001144001163687920011080011688682800114400">>,
       <<2284, "072392841161036000895320000010720008968600000103600089896000001072000900500000010360010410503600107200104287036001036001044690360010720010465103600103600104833036001072001050150360010360010519703600107200105386036001036001055680360010720010575003600103600105932036001072001061140360010360010629603600107200106478036001036001066600360010720010684203600103600107024036001072001072060360010360010738803600107200107577036001036001077590360010720010794103600103600108123036001072001083050360010360010848703600107200108669036001036001088510360010720010903303600103600109215036001072001093970360010360010958603600107200109796036001036001099500360010720011016003600103600110314036001072001105240360010360011067803600107200110895036001036001110420360010720011125903600103600111406036001072001116230360010360011177703600107200111987036001036001121410360010720011235103600103600112505036001072001127220360010360011286903600107200113086036001036001132330360010720011345003600103600113597036001072001138140360010360011396803600107200114178036001036001143320360010720011454203600103600114696036001072001149130360010360011506003600107200115277036001036001154240360010720011564103600103600115795036001072001160050360010360011615903600107200116369036001036001165230360010720011673303600103600116887036001072001171040360010360011725103600107200117468036001036001176150360010720011783203600103600117986036001072001181960360010360011835003600107200118560036001036001187140360010720011893103600103600119078036001072001192950360010360011944203600107200119659036001036001198130360010720012002303600103600120177036001072001203870360010360012054103600107200120751036001036001209050360010720012112203600103600121269036001072001214860360010360012163303600107200121850036001036001220040360010720012221403600103600122368036001072001225780360010360012273203600107200122949036001036001230960360010720012331303600103600123460036001072001236770360010360012382403600107200124041036001036001241950360010720012440503600103600124559036001072001247690360010360012492303600107200125140036001036001252870360010720012550403600103600125651036001072001258680360010360012602203600107200126232036001036001263860360010720012659603600103600126750036001072001269600360010360012711403600107200127331036001036001274780360010720012769503600103600127842036001072001280590360010360012821303600107200128423036001036001285770360010720012878703600103600128941036001072001291580360010360012930503600107200129522036001036001296690360010720012988603600103600130040036001072001302500360010360013040403600107200130614036001036001307680360010720013097803600103600131132036001072001313490360010360013149603600107200131713036001036001318600360010720013207703600103600132231036001072001324410360010360013259503600107200132805036001036001329590360010720013317603600103600133323036001072001335400360010360013368703600107200133904036001036001340510360010720013426803600103600134422036001072001346320360010360013478603600107200134996036001036001351500360010720013536703600103600135514036001072001357310360010360013587803600107200136095036001036001362490360010720013645903600103600136613036001072001368230360010360013697703600107200137187036001036001373410360010720013755803600103600137705036001072001379220360010360013806903600107200138286036001036001384400360010720013865003600103600138804036001072001390140360010360013916803600107200139385036001036001395320360010720013974903600103600139896036001072001401130360010360014026703600107200140477036001036001406310360010720014084103600103600140995036001072001412050360010360014135903600107200141576036001036001417230360010720014194003600103600142087036001072001423040360010360014245803600107200142668036001036001428220360010720014303203600103600143186036001072001434030360010360014355003600107200143767036001036001439140360010720014413103600103600144278036001072001444950360010360014464903600107200144859036001036001450130360010720014522303600103600145377036001072001455940360010360014574103600107200145958036001036001461050360010720014632203600103600146476036001072001466860360010360014684003600107200147050036001036001472040360010720014741403600103600">>,
       <<3921, "0719668247910360008039679200107200080549828001036000807470360010720008090103600103600081111036001072000812650360010360008183203600107200081993036001036000891330360010720009007803600103600090225036001072000904140360010360009059603600107200090778036001036000909600360010720009097003600103600091337036001072000915130360010360009169403600107200091876036001036000920720360010720009224003600103600103747828001072001039227920010360010410503600107200104287036001036001044690360010720010465103600103600104833036001072001050150360010360010519703600107200105386036001036001055680360010720010575003600103600105932036001072001061140360010360010629603600107200106478036001036001066600360010720010684203600103600107024036001072001072060360010360010738803600107200107577036001036001077590360010720010794103600103600108123036001072001083050360010360010848703600107200108669036001036001088510360010720010903303600103600109215036001072001093970360010360010958603600107200109796036001036001099500360010720011016003600103600110314036001072001105240360010360011067803600107200110895036001036001110420360010720011125903600103600111406036001072001116230360010360011177703600107200111987036001036001121410360010720011235103600103600112505036001072001127220360010360011286903600107200113086036001036001132330360010720011345003600103600113597036001072001138140360010360011396803600107200114178036001036001143320360010720011454203600103600114696036001072001149130360010360011506003600107200115277036001036001154240360010720011564103600103600115795036001072001160050360010360011615903600107200116369036001036001165230360010720011673303600103600116887036001072001171040360010360011725103600107200117468036001036001176150360010720011783203600103600117986036001072001181960360010360011835003600107200118560036001036001187140360010720011893103600103600119078036001072001192950360010360011944203600107200119659036001036001198130360010720012002303600103600120177036001072001203870360010360012054103600107200120751036001036001209050360010720012112203600103600121269036001072001214860360010360012163303600107200121850036001036001220040360010720012221403600103600122368036001072001225780360010360012273203600107200122949036001036001230960360010720012331303600103600123460036001072001236770360010360012382403600107200124041036001036001241950360010720012440503600103600124559036001072001247690360010360012492303600107200125140036001036001252870360010720012550403600103600125651036001072001258680360010360012602203600107200126232036001036001263860360010720012659603600103600126750036001072001269600360010360012711403600107200127331036001036001274780360010720012769503600103600127842036001072001280590360010360012821303600107200128423036001036001285770360010720012878703600103600128941036001072001291580360010360012930503600107200129522036001036001296690360010720012988603600103600130040036001072001302500360010360013040403600107200130614036001036001307680360010720013097803600103600131132036001072001313490360010360013149603600107200131713036001036001318600360010720013207703600103600132231036001072001324410360010360013259503600107200132805036001036001329590360010720013317603600103600133323036001072001335400360010360013368703600107200133904036001036001340510360010720013426803600103600134422036001072001346320360010360013478603600107200134996036001036001351500360010720013536703600103600135514036001072001357310360010360013587803600107200136095036001036001362490360010720013645903600103600136613036001072001368230360010360013697703600107200137187036001036001373410360010720013755803600103600137705036001072001379220360010360013806903600107200138286036001036001384400360010720013865003600103600138804036001072001390140360010360013916803600107200139385036001036001395320360010720013974903600103600139896036001072001401130360010360014026703600107200140477036001036001406310360010720014084103600103600140995036001072001412050360010360014135903600107200141576036001036001417230360010720014194003600103600142087036001072001423040360010360014245803600107200142668036001036001428220360010720014303203600103600143186036001072001434030360010360014355003600107200143767036001036001439140360010720014413103600103600144278036001072001444950360010360014464903600107200144859036001036001450130360010720014522303600103600145377036001072001455940360010360014574103600107200145958036001036001461050360010720014632203600103600146476036001072001466860360010360014684003600107200147050036001036001472040360010720014741403600103600">>,
       <<6076, "06712780324105040080641813601057360816538066410360008192982800107200082018792001036000892568280011080008958175600107200090078036001036000902250360010720009041403600103600090596036001072000907157920011080010410775600114400104290720001108001044727560011440010465572000110800104837756001144001050207200011080010520375600114400105385828001108001055678280011440010574982800110800105931828001144001061138280011080010629582800114400106477828001108001066598280011440010684182800110800107206000001072001073880000011080010757700000107200107759000001108001079410000010720010812300000110800108305000001072001084870000011080010866900000107200108851000001108001090330000010720010921500000110800109397000001072001095860000011080010979600000107200109950000001108001101600000010720011052403600103600110678036001072001121410360011080011235103600107200112505036001108001127220360010720011286903600110800113086036001072001132330360011080011345003600107200113597036001108001138140360010720011396803600110800114178036001072001143320360011080011454203600107200114696036001108001149130360010720011506003600110800115277036001072001154240360011080011564103600107200115795036001108001160050360010720011615903600110800116369036001072001165230360011080011673303600107200116887036001108001171040360010720011725103600110800117468036001072001176150360011080011783203600107200117986036001108001181960360010720011835003600110800118560036001072001187140360011080011893103600107200119078036001108001192950360010720011944203600110800119659036001072001198130360011080012002303600107200120177036001108001203870360010720012054103600110800120751036001072001209050360011080012112203600107200121269036001108001214860360010720012163303600110800121850036001072001220040360011080012221403600107200122368036001108001225780360010720012273203600110800122949036001072001230960360011080012331303600107200123460036001108001236770360010720012382403600110800124041036001072001241950360011080012440503600107200124559036001108001247690360010720012492303600110800125140036001072001252870360011080012550403600107200125651036001108001258680360010720012602203600110800126232036001072001263860360011080012659603600107200126750036001108001269600360010720012711403600110800127331036001072001274780360011080012769503600107200127842036001108001280590360010720012821303600110800128423036001072001285770360011080012878703600107200128941036001108001291580360010720012930503600110800129522036001072001296690360011080012988603600107200130040036001108001302500360010720013040403600110800130614036001072001307680360011080013097803600107200131132036001108001313490360010720013149603600110800131713036001072001318600360011080013207703600107200132231036001108001324410360010720013259503600110800132805036001072001329590360011080013317603600107200133323036001108001335400360010720013368703600110800133904036001072001340510360011080013426803600107200134422036001108001346320360010720013478603600110800134996036001072001351500360011080013536703600107200135514036001108001357310360010720013587803600110800136095036001072001362490360011080013645903600107200136613036001108001368230360010720013697703600110800137187036001072001373410360011080013755803600107200137705036001108001379220360010720013806903600110800138286036001072001384400360011080013865003600107200138804036001108001390140360010720013916803600110800139385036001072001395320360011080013974903600107200139896036001108001401130360010720014026703600110800140477036001072001406310360011080014084103600107200140995036001108001412050360010720014135903600110800141576036001072001417230360011080014194003600107200142087036001108001423040360010720014245803600110800142668036001072001428220360011080014303203600107200143186036001108001434030360010720014355003600110800143767036001072001439140360011080014413103600107200144278036001108001444950360010720014464903600110800144859036001072001450130360011080014522303600107200145377036001108001455940360010720014574103600110800145958036001072001461050360011080014632203600107200146476036001108001466860360010720014684003600110800147050036001072001472040360011080014741403600107200">>,
       <<10660, "081738757401108000855607560011440010410772000118000104290684001144001044727200011800010465568400114400104837720001180001050206840011440010520372000118000105385792001144001055677920011800010574979200114400105931792001180001061137920011440010629579200118000106477792001144001068418280011080010702382800114400107205828001108001073878280011440010757682800110800107758828001144001083048280011080010848682800114400108668828001108001088508280011440010903282800110800109214828001144001093968280011080010958582800114400109795828001108001099498280011440011015982800110800110313828001144001105238280011080011067782800114400110894828001108001110418280011440011125882800110800111405828001144001116228280011080011177682800114400111986828001108001121408280011440011235082800110800112504828001144001127218280011080011286882800114400113085828001108001132328280011440011344982800110800113596828001144001138138280011080011396782800114400114177828001108001143318280011440011454182800110800114695828001144001149128280011080011505982800114400116368792001108001178318280011440011862279200110800">>,
       <<5040, "0801268136010360008039679200107200080549828001036000807470360010720008090103600103600081111036001072000814760000011080008163000000107200082618792001036000892160360010720009007803600103600090225036001072000904140360010360009059603600107200090780000001036000909868280010720009117279200103600091336828001072000915130360010360009172203600107200091876036001036000920720360010720009224003600103600092429036001072000926040360010360009540400000107200095523000001036000957050000010720009588700000103600096132000001072000962580000010360009644000000107200096622000001036000968600000010720009698600000103600097224000001072000973500000010360009758800000107200097714000001036000979590000010720009807800000103600102649000001072001028240000010360010301300000107200103195000001036001033770000010720010355900000103600103748000001072001039230000010360010410500000107200104287000001036001044690000010720010465100000103600104833000001072001050150000010360010519700000107200105386000001036001055680000010720010575000000103600105932000001072001061140000010360010629600000107200106478000001036001066600360010720010684203600103600107024036001072001072060360010360010738803600107200107577036001036001077590360010720010794103600103600108123036001072001083050360010360010848703600107200108669036001036001088510360010720010903303600103600109215036001072001093970360010360010958603600107200109796036001036001099500360010720011016003600103600110314036001072001105240360010360011067803600107200110895036001036001110420360010720011125903600103600111406036001072001116230360010360011177703600107200111987036001036001121410360010720011235103600103600112505036001072001127220360010360011286903600107200113086036001036001132330360010720011345003600103600113597036001072001138140360010360011396803600107200114178036001036001143320360010720011454203600103600114696036001072001149130360010360011506003600107200115277036001036001154240360010720011564103600103600115795036001072001160050360010360011615903600107200116369036001036001165230360010720011673303600103600116887036001072001171040360010360011725103600107200117468036001036001176150360010720011783203600103600117986036001072001181960360010360011835003600107200118560036001036001187140360010720011893103600103600119078036001072001192950360010360011944203600107200119659036001036001198130360010720012002303600103600120177036001072001203870360010360012054103600107200120751036001036001209050360010720012112203600103600121269036001072001214860360010360012163303600107200121850036001036001220040360010720012221403600103600122368036001072001225780360010360012273203600107200122949036001036001230960360010720012331303600103600123460036001072001236770360010360012382403600107200124041036001036001241950360010720012440503600103600124559036001072001247690360010360012492303600107200125140036001036001252870360010720012550403600103600125651036001072001258680360010360012602203600107200126232036001036001263860360010720012659603600103600126750036001072001269600360010360012711403600107200127331036001036001274780360010720012769503600103600127842036001072001280590360010360012821303600107200128423036001036001285770360010720012878703600103600128941036001072001291580360010360012930503600107200129522036001036001296690360010720012988603600103600130040036001072001302500360010360013040403600107200130614036001036001307680360010720013097803600103600131132036001072001313490360010360013149603600107200131713036001036001318600360010720013207703600103600132231036001072001324410360010360013259503600107200132805036001036001329590360010720013317603600103600133323036001072001335400360010360013368703600107200133904036001036001340510360010720013426803600103600134422036001072001346320360010360013478603600107200134996036001036001351500360010720013536703600103600135514036001072001357310360010360013587803600107200136095036001036001362490360010720013645903600103600136613036001072001368230360010360013697703600107200137187036001036001373410360010720013755803600103600137705036001072001379220360010360013806903600107200138286036001036001384400360010720013865003600103600138804036001072001390140360010360013916803600107200139385036001036001395320360010720013974903600103600139896036001072001401130360010360014026703600107200140477036001036001406310360010720014084103600103600140995036001072001412050360010360014135903600107200141576036001036001417230360010720014194003600103600142087036001072001423040360010360014245803600107200142668036001036001428220360010720014303203600103600143186036001072001434030360010360014355003600107200143767036001036001439140360010720014413103600103600144278036001072001444950360010360014464903600107200144859036001036001450130360010720014522303600103600145377036001072001455940360010360014574103600107200145958036001036001461050360010720014632203600103600146476036001072001466860360010360014684003600107200147050036001036001472040360010720014741403600103600">>,
       <<3832, "068588825681036000895157920010720009007803600103600090225036001072000904140360010360009059603600107200090778036001036000909600360010720009112703600103600104833036001072001050150360010360010519703600107200105386036001036001055680360010720010575003600103600105932036001072001061140360010360010629603600107200106478036001036001066600360010720010684203600103600107024036001072001072060360010360010738803600107200107577036001036001077590360010720010794103600103600108123036001072001083050360010360010848703600107200108669036001036001088510360010720010903303600103600109215036001072001093970360010360010958603600107200109796036001036001099500360010720011016003600103600110314036001072001105240360010360011067803600107200110895036001036001110420360010720011125903600103600111406036001072001116230360010360011177703600107200111987036001036001121410360010720011235103600103600112505036001072001127220360010360011286903600107200113086036001036001132330360010720011345003600103600113597036001072001138140360010360011396803600107200114178036001036001143320360010720011454203600103600114696036001072001149130360010360011506003600107200115277036001036001154240360010720011564103600103600115795036001072001160050360010360011615903600107200116369036001036001165230360010720011673303600103600116887036001072001171040360010360011725103600107200117468036001036001176150360010720011783203600103600117986036001072001181960360010360011835003600107200118560036001036001187140360010720011893103600103600119078036001072001192950360010360011944203600107200119659036001036001198130360010720012002303600103600120177036001072001203870360010360012054103600107200120751036001036001209050360010720012112203600103600121269036001072001214860360010360012163303600107200121850036001036001220040360010720012221403600103600122368036001072001225780360010360012273203600107200122949036001036001230960360010720012331303600103600123460036001072001236770360010360012382403600107200124041036001036001241950360010720012440503600103600124559036001072001247690360010360012492303600107200125140036001036001252870360010720012550403600103600125651036001072001258680360010360012602203600107200126232036001036001263860360010720012659603600103600126750036001072001269600360010360012711403600107200127331036001036001274780360010720012769503600103600127842036001072001280590360010360012821303600107200128423036001036001285770360010720012878703600103600128941036001072001291580360010360012930503600107200129522036001036001296690360010720012988603600103600130040036001072001302500360010360013040403600107200130614036001036001307680360010720013097803600103600131132036001072001313490360010360013149603600107200131713036001036001318600360010720013207703600103600132231036001072001324410360010360013259503600107200132805036001036001329590360010720013317603600103600133323036001072001335400360010360013368703600107200133904036001036001340510360010720013426803600103600134422036001072001346320360010360013478603600107200134996036001036001351500360010720013536703600103600135514036001072001357310360010360013587803600107200136095036001036001362490360010720013645903600103600136613036001072001368230360010360013697703600107200137187036001036001373410360010720013755803600103600137705036001072001379220360010360013806903600107200138286036001036001384400360010720013865003600103600138804036001072001390140360010360013916803600107200139385036001036001395320360010720013974903600103600139896036001072001401130360010360014026703600107200140477036001036001406310360010720014084103600103600140995036001072001412050360010360014135903600107200141576036001036001417230360010720014194003600103600142087036001072001423040360010360014245803600107200142668036001036001428220360010720014303203600103600143186036001072001434030360010360014355003600107200143767036001036001439140360010720014413103600103600144278036001072001444950360010360014464903600107200144859036001036001450130360010720014522303600103600145377036001072001455940360010360014574103600107200145958036001036001461050360010720014632203600103600146476036001072001466860360010360014684003600107200147050036001036001472040360010720014741403600103600">>,
       <<11404, "078630749961108000942137200011440009430472000110800">>,
       <<17380, "0769886902011800010949568400121600">>,
       <<25372, "07263761028125200">>,
       <<23260, "07443263140123400">>,
       <<10384, "07863076016110800">>,
       <<0, "09269500000118000">>,
       <<13308, "07698873092114400">>,
       <<17640, "09634668760118000">>,
       <<13800, "0769887260011440010466472000118000104826684001144001141777920011800011433175600114400">>,
       <<10856, "07863075544110800">>,
       <<13312, "07860073088114400">>,
       <<40160, "074797462401396000879464680013600008949750400132400090538540001396000999074680005680010863343200143200">>,
       <<(0 - 25200), "0810963240007840008130628800074800081460324000784000816702880007480008981232400078400091141288000748000990233240007840009920528800074800099387324000784000995692880007480009975132400078400099933288000748001001153240007840010029728800074800100479324000784001006682880007480010085032400078400101032288000748001012143240007840010139628800074800101466324000784001017602880007480010187932400078400102124288000748001023063240007840010249528800074800102670324000784001028592880007480010304132400078400103223288000748001034053240007840010358728800074800103769324000784001039512880007480010413332400078400104315288000748001044973240007840010468628800074800104861324000784001050502880007480010523232400078400105414288000748001055963240007840010577828800074800105960324000784001061422880007480010630332400078400106506288000748001066673240007840010687728800074800107031324000784001072412880007480010739532400078400107605288000748001077663240007840010796928800074800108130324000784001083332880007480010849432400078400108704288000748001088583240007840010906828800074800109222324000784001094322880007480010959332400078400109796288000748001099573240007840011016028800074800110321324000784001105242880007480011068532400078400110895288000748001110493240007840011125928800074800111413324000784001116232880007480011178432400078400111987288000748001121483240007840011235128800074800112512324000784001127222880007480011287632400078400113086288000748001132403240007840011345028800074800113583324000784001138212880007480011394732400078400114185288000748001143113240007840011454928800074800114682324000784001149202880007480011504632400078400115284288000748001154103240007840011564828800074800115774324000784001160122880007480011613832400078400116376288000748001165023240007840011674028800074800116873324000784001171112880007480011723732400078400117475288000748001176013240007840011783928800074800117965324000784001182032880007480011832932400078400118567288000748001187003240007840011893828800074800119064324000784001193022880007480011942832400078400119666288000748001197923240007840012003028800074800120156324000784001203942880007480012052032400078400120758288000748001208913240007840012112928800074800121255324000784001214932880007480012161932400078400121857288000748001219833240007840012222128800074800122347324000784001225852880007480012271832400078400122956288000748001230823240007840012332028800074800123446324000784001236842880007480012381032400078400124048288000748001241743240007840012441228800074800124538324000784001247762880007480012490932400078400125147288000748001252733240007840012551128800074800125637324000784001258752880007480012600132400078400126239288000748001263653240007840012660328800074800126729324000784001269672880007480012710032400078400127338288000748001274643240007840012770228800074800127828324000784001280662880007480012819232400078400128430288000748001285563240007840012879428800074800128927324000784001291652880007480012929132400078400129529288000748001296553240007840012989328800074800130019324000784001302572880007480013038332400078400130621288000748001307473240007840013098528800074800131118324000784001313562880007480013148232400078400131720288000748001318463240007840013208428800074800132210324000784001324482880007480013257432400078400132812288000748001329453240007840013318328800074800133309324000784001335472880007480013367332400078400133911288000748001340373240007840013427528800074800134401324000784001346392880007480013476532400078400135003288000748001351363240007840013537428800074800135500324000784001357382880007480013586432400078400136102288000748001362283240007840013646628800074800136592324000784001368302880007480013695632400078400137194288000748001373273240007840013756528800074800137691324000784001379292880007480013805532400078400138293288000748001384193240007840013865728800074800138783324000784001390212880007480013915432400078400139392288000748001395183240007840013975628800074800139882324000784001401202880007480014024632400078400140484288000748001406103240007840014084828800074800140974324000784001412122880007480014134532400078400141583288000748001417093240007840014194728800074800142073324000784001423112880007480014243732400078400142675288000748001428013240007840014303928800074800143172324000784001434102880007480014353632400078400143774288000748001439003240007840014413828800074800144264324000784001445022880007480014462832400078400144866288000748001449923240007840014523028800074800145363324000784001456012880007480014572732400078400145965288000748001460913240007840014632928800074800146455324000784001466932880007480014681932400078400147057288000748001471833240007840014742128800074800">>,
       <<44028, "06305042372144100091233423001459001017665040014950010187850400145900102123504001495001022565040014590010249450400149500102620504001459001028585040014950010298450400145900103222504001495001033485040014590010358650400149500103712504001459001039505040014950010407650400145900104314504001495001044475040014590010468550400149500104811504001459001050495040014950010517550400145900105413504001495001055395040014590010577750400149500105903504001459001061415040014950010626750400145900106505504001495001066385040014590010687650400149500107002504001459001072195040014950010738050400145900107583504001495001077445040014590010794750400149500108108504001459001083115040014950010847950400145900108675504001495001088435040014590010903950400149500109207504001459001094035040014950010957150400145900109774504001495001099355040014590011013850400149500110299504001459001105025040014950011067050400145900110866504001495001110345040014590011123050400149500111398504001459001116015040014950011176250400145900111965504001495001121265040014590011232950400149500112497504001459001126935040014950011286150400145900113057504001495001132255040014590011342150400149500113589504001459001137855040014950011397450400145900114149504001495001143385040014590011451350400149500114702504001459001148775040014950011506650400145900115241504001495001154305040014590011561250400149500115801504001459001159765040014950011616550400145900116340504001495001165295040014590011670450400149500116893504001459001170685040014950011725750400145900117432504001495001176215040014590011780350400149500117992504001459001181675040014950011835650400145900118531504001495001187205040014590011889550400149500119084504001459001192595040014950011944850400145900119623504001495001198195040014590011999450400149500120183504001459001203585040014950012054750400145900120722504001495001209115040014590012108650400149500121275504001459001214505040014950012163950400145900121821504001495001220105040014590012218550400149500122374504001459001225495040014950012273850400145900122913504001495001231025040014590012327750400149500123466504001459001236415040014950012383050400145900124012504001495001242015040014590012437650400149500124565504001459001247405040014950012492950400145900125104504001495001252935040014590012546850400149500125657504001459001258395040014950012602850400145900126203504001495001263925040014590012656750400149500126756504001459001269315040014950012712050400145900127295504001495001274845040014590012765950400149500127848504001459001280305040014950012821950400145900128394504001495001285835040014590012875850400149500128947504001459001291225040014950012931150400145900129486504001495001296755040014590012985050400149500130046504001459001302215040014950013041050400145900130585504001495001307745040014590013094950400149500131138504001459001313135040014950013150250400145900131677504001495001318665040014590013204850400149500132237504001459001324125040014950013260150400145900132776504001495001329655040014590013314050400149500133329504001459001335045040014950013369350400145900133868504001495001340575040014590013423950400149500134428504001459001346035040014950013479250400145900134967504001495001351565040014590013533150400149500135520504001459001356955040014950013588450400145900136066504001495001362555040014590013643050400149500136619504001459001367945040014950013698350400145900137158504001495001373475040014590013752250400149500137711504001459001378865040014950013807550400145900138257504001495001384465040014590013862150400149500138810504001459001389855040014950013917450400145900139349504001495001395385040014590013971350400149500139902504001459001400775040014950014027350400145900140448504001495001406375040014590014081250400149500141001504001459001411765040014950014136550400145900141540504001495001417295040014590014190450400149500142093504001459001422755040014950014246450400145900142639504001495001428285040014590014300350400149500143192504001459001433675040014950014355650400145900143731504001495001439205040014590014409550400149500144284504001459001444665040014950014465550400145900144830504001495001450195040014590014519450400149500145383504001459001455585040014950014574750400145900145922504001495001461115040014590014629350400149500146482504001459001466575040014950014684650400145900147021504001495001472105040014590014738550400149500">>,
       <<(0 - 28800), "0810963600007480008130632400071200081460360000748000816703240007120008981236000074800091141324000712000990233600007480009920532400071200099387360000748000995693240007120009975136000074800099933324000712001001153600007480010029732400071200100479360000748001006683240007120010085036000074800101032324000712001012143600007480010139632400071200101466360000748001017603240007120010187936000074800102124324000712001023063600007480010249532400071200102670360000748001028593240007120010304136000074800103223324000712001034053600007480010358732400071200103769360000748001039513240007120010413336000074800104315324000712001044973600007480010468632400071200104861360000748001050503240007120010523236000074800105414324000712001055963600007480010577832400071200105960360000748001061423240007120010630336000074800106506324000712001066673600007480010687732400071200107031360000748001072413240007120010739536000074800107605324000712001077663600007480010796932400071200108130360000748001083333240007120010849436000074800108704324000712001088583600007480010906832400071200109222360000748001094323240007120010959336000074800109796324000712001099573600007480011016032400071200110321360000748001105243240007120011068536000074800110895324000712001110493600007480011125932400071200111413360000748001116233240007120011178436000074800111987324000712001121483600007480011235132400071200112512360000748001127223240007120011287636000074800113086324000712001132403600007480011345032400071200113583360000748001138213240007120011394736000074800114185324000712001143113600007480011454932400071200114682360000748001149203240007120011504636000074800115284324000712001154103600007480011564832400071200115774360000748001160123240007120011613836000074800116376324000712001165023600007480011674032400071200116873360000748001171113240007120011723736000074800117475324000712001176013600007480011783932400071200117965360000748001182033240007120011832936000074800118567324000712001187003600007480011893832400071200119064360000748001193023240007120011942836000074800119666324000712001197923600007480012003032400071200120156360000748001203943240007120012052036000074800120758324000712001208913600007480012112932400071200121255360000748001214933240007120012161936000074800121857324000712001219833600007480012222132400071200122347360000748001225853240007120012271836000074800122956324000712001230823600007480012332032400071200123446360000748001236843240007120012381036000074800124048324000712001241743600007480012441232400071200124538360000748001247763240007120012490936000074800125147324000712001252733600007480012551132400071200125637360000748001258753240007120012600136000074800126239324000712001263653600007480012660332400071200126729360000748001269673240007120012710036000074800127338324000712001274643600007480012770232400071200127828360000748001280663240007120012819236000074800128430324000712001285563600007480012879432400071200128927360000748001291653240007120012929136000074800129529324000712001296553600007480012989332400071200130019360000748001302573240007120013038336000074800130621324000712001307473600007480013098532400071200131118360000748001313563240007120013148236000074800131720324000712001318463600007480013208432400071200132210360000748001324483240007120013257436000074800132812324000712001329453600007480013318332400071200133309360000748001335473240007120013367336000074800133911324000712001340373600007480013427532400071200134401360000748001346393240007120013476536000074800135003324000712001351363600007480013537432400071200135500360000748001357383240007120013586436000074800136102324000712001362283600007480013646632400071200136592360000748001368303240007120013695636000074800137194324000712001373273600007480013756532400071200137691360000748001379293240007120013805536000074800138293324000712001384193600007480013865732400071200138783360000748001390213240007120013915436000074800139392324000712001395183600007480013975632400071200139882360000748001401203240007120014024636000074800140484324000712001406103600007480014084832400071200140974360000748001412123240007120014134536000074800141583324000712001417093600007480014194732400071200142073360000748001423113240007120014243736000074800142675324000712001428013600007480014303932400071200143172360000748001434103240007120014353636000074800143774324000712001439003600007480014413832400071200144264360000748001445023240007120014462836000074800144866324000712001449923600007480014523032400071200145363360000748001456013240007120014572736000074800145965324000712001460913600007480014632932400071200146455360000748001466933240007120014681936000074800147057324000712001471833600007480014742132400071200">>,
       <<45184, "0716964121605878407845041216058600092695414000604001148783960006400011506650400060400115241504000640001153383600015040011543050400146800115612504001504001158015040014680011597650400150400116165504001468001163405040015040011652950400146800116704504001504001168935040014680011706850400150400117257504001468001174325040015040011762150400146800117803504001504001179925040014680011816750400150400118356504001468001185315040015040011872050400146800">>,
       <<37336, "0671274906413531207260651088136000089953504001324000911005400013600011643157600139600">>,
       <<(0 - 49972), "054344499721364280747974997213600007981850400132400081402540001360000894975040013240009108054000136000">>,
       <<40396, "0788264600413960010145143200143200101549432001396001050144680014320010519643200139600105378468001432001055604320013960010574946800143200105924432001396001061134680014320010629543200139600106477468001432001066594320013960010684146800143200107023432001396001072054680014320010738743200139600107569468001432001077514320013960010794046800143200108059432001396001083324680014320010842343200139600">>,
       <<0, "088189000000568001035604320006040010913039600146800">>,
       <<(0 - 41096), "0747984109606040011533839600146800">>,
       <<42944, "0802084345614320011053050400146800110649504001432001109015040014680011101350400143200114576504001468001146955040014320011490550400146800115038504001432001152695040014680011536050400143200115633504001468001157245040014320011600450400146800116088468001432001163755040014680011645250400143200116739504001468001168165040014320011711050400146800117180504001432001174745040014680011754450400143200117838504001468001179085040014320011820950400146800118272504001432001186155040014680011864350400143200">>,
       <<43012, "07479743388143200">>,
       <<(0 - 21504), "08575521504082000105844180000784001083672160008200010843618000078400">>,
       <<(0 - 32388), "07908932388067600">>,
       <<38388, "07908848012139600">>,
       <<(0 - 51660), "0543445166013474007479751660136000089750504001324000907145400013600009615857600139600096740540001360000991465760013960009965946860136000099806576001396000998765400013600010011457600139600100247540001360001004785760013960010061154000136000101444576001396001015145400013600010233657600139600102424540601360001026695760013960010279554000136000">>,
       <<(0 - 37886), "072984810860622000866054500006580008662677400062200089812450000658000911414140006220009175745000064000">>,
       <<(0 - 37760), "074798377600616001035603840006400010913036000150400">>,
       <<(0 - 47284), "054344472841391160747974728413960007981846800132400081402540001396000879464680013600008949750400132400091080540001396000999074680014320011059143200139600">>,
       <<41088, "07479745312139600079818468001324000814025400013960008794646800136000089497504001324000905315400013960009990746800143200">>,
       <<(0 - 33480), "07908933480065800">>,
       <<(0 - 42568), "074798425680604000950403960006400009513136000060400">>,
       <<40060, "08211646340141400090012450001324000911185400014140010332652200143200">>,
       <<(0 - 40780), "0937144078005920009799040800060400">>,
       <<40312, "07479746088140320093059460801414001017595220014500010188552200141400116711522001396001181745400014320011835654000139600118538540001432001187205400013960011890254000143200119084540001396001192665400014320011944854000139600119630540001432001198195400013960012000154000143200120183540001396001203655400014320012054754000139600120729540001432001209115400013960012109354000143200121275540001396001214575400014320012163954000139600121828540001432001220105400013960012219254000143200122374540001396001225565400014320012273854000139600122920540001432001231025400013960012328454000143200123466540001396001236485400014320012383054000139600124019540001432001242015400013960012438354000143200124565540001396001247475400014320012492954000139600125111540001432001252935400013960012547554000143200125657540001396001258465400014320012602854000139600126210540001432001263925400013960012657454000143200126756540001396001269385400014320012712054000139600127302540001432001274845400013960012766654000143200127848540001396001280375400014320012821954000139600128401540001432001285835400013960012876554000143200128947540001396001291295400014320012931154000139600129493540001432001296755400013960012985754000143200130046540001396001302285400014320013041054000139600130592540001432001307745400013960013095654000143200131138540001396001313205400014320013150254000139600131684540001432001318665400013960013205554000143200132237540001396001324195400014320013260154000139600132783540001432001329655400013960013314754000143200133329540001396001335115400014320013369354000139600133875540001432001340575400013960013424654000143200134428540001396001346105400014320013479254000139600134974540001432001351565400013960013533854000143200135520540001396001357025400014320013588454000139600136073540001432001362555400013960013643754000143200136619540001396001368015400014320013698354000139600137165540001432001373475400013960013752954000143200137711540001396001378935400014320013807554000139600138264540001432001384465400013960013862854000143200138810540001396001389925400014320013917454000139600139356540001432001395385400013960013972054000143200139902540001396001400845400014320014027354000139600140455540001432001406375400013960014081954000143200141001540001396001411835400014320014136554000139600141547540001432001417295400013960014191154000143200142093540001396001422825400014320014246454000139600142646540001432001428285400013960014301054000143200143192540001396001433745400014320014355654000139600143738540001432001439205400013960014410254000143200144284540001396001444735400014320014465554000139600144837540001432001450195400013960014520154000143200145383540001396001455655400014320014574754000139600145929540001432001461115400013960014630054000143200146482540001396001466645400014320014684654000139600147028540001432001472105400013960014739254000143200">>,
       <<39948, "07882646452139600102893468001432001029784320013960010325746800143200103343432001396001098305400014320010992154000139600">>,
       <<45432, "0716964096805903207845040968060400">>,
       <<(0 - 54124), "0543445412413227607479754124132400">>,
       <<(0 - 31220), "0747983122006940011034330600071200">>,
       <<(0 - 48428), "05434448428137972074797484281396000798184680013240008140254000139600087946468001360000894975040013240009108054000139600">>,
       <<35320, "0671275108013531207260651088136000">>,
       <<48056, "07442638344061656093714383440622001032373780006580010334934200064000103587360000658001037133420006400010395136000065800104077342000640001043153600006580010444834200064000104686360000658001048123420006400010505036000065800105176342000640001054143600006580010554034200064000105778360000658001059043420006400010614236000065800106268342000640001065063600006580010663934200064000106877360000658001070033420006400010724136000065800107367342000640001076053600006580010773134200064000">>,
       <<(0 - 51420), "05434451420134980074797514201324000906925400013600009615857600139600096740540001360000991465760013960009965946860136000099806576001396000998765400013600010011457600139600100247540001360001004785760013960010061154000136000101444576001396001015145400013600010233657600139600102424540601360001026695760013960010279554000136000">>,
       <<(0 - 35896), "07908935896064000">>,
       <<41524, "07479744876143200">>,
       <<44352, "09112042048144400096712420001468001108704680015040011103446800146800111265468001504001113494320014680011162946800150400111713432001468001171104680015040011718046800146800">>,
       <<39988, "07479746412143200">>,
       <<44120, "07479742280143200">>,
       <<0, "102649036001036001028240360010000010301303600103600103195036001000001033770360010360010355903600100000103748036001036001039230360010000010410503600103600104287036001000001044690360010360010465103600100000104833036001036001050150360010000010519703600103600105386036001000001055680360010360010575003600100000105932036001036001061140360010000010629603600103600106478036001000001066600360010360010684203600100000107024036001036001072060360010000010738803600103600107577036001000001077590360010360010794103600100000108123036001036001083050360010000010848703600103600108669036001000001088510360010360010903303600100000109215036001036001093970360010000010958603600103600109796036001000001099500360010360011016003600100000110314036001036001105240360010000011067803600103600110895036001000001110420360010360011125903600100000111406036001036001116230360010000011177703600103600111987036001000001121410360010360011235103600100000112505036001036001127220360010000011286903600103600113086036001000001132330360010360011345003600100000113597036001036001138140360010000011396803600103600114178036001000001143320360010360011454203600100000114696036001036001149130360010000011506003600103600115277036001000001154240360010360011564103600100000115795036001036001160050360010000011615903600103600116369036001000001165230360010360011673303600100000116887036001036001171040360010000011725103600103600117468036001000001176150360010360011783203600100000117986036001036001181960360010000011835003600103600118560036001000001187140360010360011893103600100000119078036001036001192950360010000011944203600103600119659036001000001198130360010360012002303600100000120177036001036001203870360010000012054103600103600120751036001000001209050360010360012112203600100000121269036001036001214860360010000012163303600103600121850036001000001220040360010360012221403600100000122368036001036001225780360010000012273203600103600122949036001000001230960360010360012331303600100000123460036001036001236770360010000012382403600103600124041036001000001241950360010360012440503600100000124559036001036001247690360010000012492303600103600125140036001000001252870360010360012550403600100000125651036001036001258680360010000012602203600103600126232036001000001263860360010360012659603600100000126750036001036001269600360010000012711403600103600127331036001000001274780360010360012769503600100000127842036001036001280590360010000012821303600103600128423036001000001285770360010360012878703600100000128941036001036001291580360010000012930503600103600129522036001000001296690360010360012988603600100000130040036001036001302500360010000013040403600103600130614036001000001307680360010360013097803600100000131132036001036001313490360010000013149603600103600131713036001000001318600360010360013207703600100000132231036001036001324410360010000013259503600103600132805036001000001329590360010360013317603600100000133323036001036001335400360010000013368703600103600133904036001000001340510360010360013426803600100000134422036001036001346320360010000013478603600103600134996036001000001351500360010360013536703600100000135514036001036001357310360010000013587803600103600136095036001000001362490360010360013645903600100000136613036001036001368230360010000013697703600103600137187036001000001373410360010360013755803600100000137705036001036001379220360010000013806903600103600138286036001000001384400360010360013865003600100000138804036001036001390140360010000013916803600103600139385036001000001395320360010360013974903600100000139896036001036001401130360010000014026703600103600140477036001000001406310360010360014084103600100000140995036001036001412050360010000014135903600103600141576036001000001417230360010360014194003600100000142087036001036001423040360010000014245803600103600142668036001000001428220360010360014303203600100000143186036001036001434030360010000014355003600103600143767036001000001439140360010360014413103600100000144278036001036001444950360010000014464903600103600144859036001000001450130360010360014522303600100000145377036001036001455940360010000014574103600103600145958036001000001461050360010360014632203600100000146476036001036001466860360010000014684003600103600147050036001000001472040360010360014741403600100000">> >>

\* str::parse::<chrono_tz::Tz>: the zone of a name, as the place of its table.
Tz_from_str(z) ==
    LET RECURSIVE Name(_)
        Name(cs) == IF cs = <<>> THEN "" ELSE Head(cs) \o Name(Tail(cs))
    IN  Only({ IF \E e \in NamedZones : e[1] = name
               THEN Ok((CHOOSE e \in NamedZones : e[1] = name)[2])
               ELSE Err("ParsingTimeZoneNamed")
               : name \in {Name(z)} })

\* rule timezone_name.
timezone_name(s, p) ==
    Only({ IF e = <<>> THEN Fail ELSE Match(e[2], Tz_from_str(SubSeq(s, p, e[2] - 1)))
           : e \in {match_runs(s, p, <<Run(TimezoneNameStart, 1, 1),
                                      Run(TimezoneNameRest, 1, Len(s))>>, <<>>)} })

\* The day number of a civil date, counted from 1970-01-01.
DaysFromCivil(y, m, d) ==
    LET yy == IF m <= 2 THEN y - 1 ELSE y
        era == yy \div 400
        yoe == yy - era * 400
        doy == (153 * (IF m > 2 THEN m - 3 ELSE m + 9) + 2) \div 5 + d - 1
        doe == yoe * 365 + yoe \div 4 - yoe \div 100 + doy
    IN  era * 146097 + doe - 719468

\* The civil date of a day number.
CivilFromDays(days) ==
    LET z == days + 719468
        era == z \div 146097
        doe == z - era * 146097
        yoe == (doe - doe \div 1460 + doe \div 36524 - doe \div 146096) \div 365
        doy == doe - (365 * yoe + yoe \div 4 - yoe \div 100)
        mp == (5 * doy + 2) \div 153
        d == doy - (153 * mp + 2) \div 5 + 1
        m == IF mp < 10 THEN mp + 3 ELSE mp - 9
        y == yoe + era * 400
    IN  [year |-> IF m <= 2 THEN y + 1 ELSE y, month |-> m, day |-> d]

\* and_local_timezone(z).earliest() for a FixedOffset: the local time exists
\* once, at the offset.
FixedOffset_earliest(d, t, z) == Some(z)

\* and_local_timezone(z).earliest() for a Tz: the offset of the span of the
\* zone's table that holds the local time, a span reaching in local time
\* from its beginning at its own offset to the next change at its own offset;
\* the earlier span when two hold it (clocks set back), and None when no span
\* holds it (clocks set forward).
Tz_earliest(d, t, z) ==
    LET before == Timespans[z][1]
        changes == Timespans[z][2]
        n == Len(changes) \div 17
        local == <<DaysFromCivil(d.year, d.month, d.day),
                   t.hour * 3600 + t.minute * 60 + t.second>>
        RECURSIVE Decimal(_)
        Decimal(ds) ==
            IF ds = "" THEN 0
            ELSE 10 * Decimal(SubSeq(ds, 1, Len(ds) - 1))
                 + DigitValue(SubSeq(ds, Len(ds), Len(ds)))
        Field(i, first, last) ==
            Decimal(SubSeq(changes, 17 * (i - 1) + first, 17 * (i - 1) + last))
        NotAfter(a, b) == a[1] < b[1] \/ (a[1] = b[1] /\ a[2] <= b[2])
        Offset(i) == IF i = 0 THEN before ELSE Field(i, 12, 17) - 100000
        LocalAt(i, offset) ==
            LET secs == Field(i, 7, 11) + offset IN
            <<Field(i, 1, 6) - 100000 + (secs \div SecondsPerDay),
              secs % SecondsPerDay>>
        Contains(i) == /\ i = 0 \/ NotAfter(LocalAt(i, Offset(i)), local)
                       /\ i = n \/ ~NotAfter(LocalAt(i + 1, Offset(i)), local)
        found == {i \in 0..n : Contains(i)}
    IN  IF found = {} THEN None
        ELSE Some(Offset(CHOOSE i \in found : \A j \in found : i <= j))

\* d.and_time(t), taken as local time at an offset, .to_utc(): the instant,
\* as its UTC day number, second of the day and nanoseconds.
to_utc(d, t, offset) ==
    LET local == t.hour * 3600 + t.minute * 60 + t.second - offset IN
    [days |-> DaysFromCivil(d.year, d.month, d.day) + local \div SecondsPerDay,
     secs |-> local % SecondsPerDay,
     nano |-> t.nano]

\* The body of both alternatives of rule datetime: the first error of the
\* date, the time and the zone, in that order, then ParsingDateTime for a
\* local time the zone does not have, or the instant; named tells the
\* second alternative, whose zone is a Tz, from the first.
datetime_result(d, t, z, named) ==
    IF ~d.ok THEN d
    ELSE IF ~t.ok THEN t
    ELSE IF ~z.ok THEN z
    ELSE Only({ IF offset = None THEN Err("ParsingDateTime")
                ELSE Ok(to_utc(d.val, t.val, offset[1]))
                : offset \in {IF named THEN Tz_earliest(d.val, t.val, z.val)
                              ELSE FixedOffset_earliest(d.val, t.val, z.val)} })

\* rule datetime: date "T" time, then an offset or else a zone name.
datetime(s, p) ==
    Only({
        IF ~d.m \/ ~Lit(s, d.pos, <<"T">>) THEN Fail
        ELSE Only({
            IF ~t.m THEN Fail
            ELSE Only({
                IF zo.m THEN Match(zo.pos, datetime_result(d.val, t.val, zo.val, FALSE))
                ELSE Only({
                    IF zn.m THEN Match(zn.pos, datetime_result(d.val, t.val, zn.val, TRUE))
                    ELSE Fail
                    : zn \in {timezone_name(s, t.pos)} })
                : zo \in {timezone_offset(s, t.pos)} })
            : t \in {time(s, d.pos + 1)} })
        : d \in {date(s, p)} })

\* rule datetime_value.
datetime_value(s, p) ==
    Only({ IF ~dt.m THEN Fail
           ELSE Match(dt.pos, IF dt.val.ok THEN Ok(Value_DateTime(dt.val.val))
                              ELSE dt.val)
           : dt \in {datetime(s, p)} })

\* Ordered choice: the first of the alternatives' results that is a match.
first_match(rs) ==
    IF \E i \in 1..Len(rs) : rs[i].m
    THEN rs[CHOOSE i \in 1..Len(rs) : rs[i].m /\ \A j \in 1..(i - 1) : ~rs[j].m]
    ELSE Fail

\* v:bool_value() { Ok(v) } and v:null_value() { Ok(v) }.
ok_value(r) == IF r.m THEN Match(r.pos, Ok(r.val)) ELSE Fail

\* rule value: the first alternative that matches.
value(s, p) ==
    first_match(<<string_value(s, p), datetime_value(s, p), date_value(s, p),
                  time_value(s, p), uuid_value(s, p), number_value(s, p),
                  ok_value(bool_value(s, p)), ok_value(null_value(s, p))>>)

\* enum AfterValueExpr.
AfterValueExpr_Compare(op, r) == [after |-> "Compare", op |-> op, rhs |-> r]
AfterValueExpr_In(values) == [after |-> "In", values |-> values]
AfterValueExpr_End == [after |-> "End"]

\* _ "(" _ from p: the position after, or 0.
open_paren(s, p) ==
    IF Lit(s, whitespace(s, p), <<"(">>)
    THEN whitespace(s, whitespace(s, p) + 1) ELSE 0

\* _ ")" from p: the position after, or 0.
close_paren(s, p) ==
    IF Lit(s, whitespace(s, p), <<")">>) THEN whitespace(s, p) + 1 ELSE 0

RECURSIVE filter(_, _)
RECURSIVE filter_after(_, _, _)
RECURSIVE any_expr(_, _)
RECURSIVE after_value_expr(_, _)
RECURSIVE value_expr(_, _)
RECURSIVE function_call(_, _)
RECURSIVE lambda_expr(_, _)
RECURSIVE filter_list(_, _)
RECURSIVE filter_list_rest(_, _, _)

\* The body of the or and and alternatives of rule filter: l? before r?.
join_action_and_over_or(word, l, r) ==
    IF ~l.ok THEN l
    ELSE IF ~r.ok THEN r
    ELSE IF word = "or" THEN Ok(Or(l.val, r.val))
    ELSE IF r.val.tag = "Or" THEN Ok(Or(And(l.val, r.val.lhs), r.val.rhs))
    ELSE Ok(And(l.val, r.val))
join_action(word, l, r) ==
    IF ~l.ok THEN l
    ELSE IF ~r.ok THEN r
    ELSE Ok(IF word = "or" THEN Or(l.val, r.val) ELSE And(l.val, r.val))

\* The body of the not alternative of rule filter.
not_action_first_operand(e) ==
    IF ~e.ok THEN e
    ELSE IF e.val.tag = "Or" THEN Ok(Or(Not(e.val.lhs), e.val.rhs))
    ELSE IF e.val.tag = "And" THEN Ok(And(Not(e.val.lhs), e.val.rhs))
    ELSE Ok(Not(e.val))
not_action(e) == IF e.ok THEN Ok(Not(e.val)) ELSE e

\* The body of the parenthesized alternative of rule any_expr.
group_action_as_node(e) == IF e.ok THEN Ok(Function(<<"(", ")">>, <<e.val>>)) ELSE e
group_action(e) == e

\* The body of the second alternative of rule any_expr: r? before l?.
any_expr_action(l, r) ==
    IF ~r.ok THEN r
    ELSE IF ~l.ok THEN l
    ELSE IF r.val.after = "Compare" THEN Ok(Compare(l.val, r.val.op, r.val.rhs))
    ELSE IF r.val.after = "In" THEN Ok(In(l.val, r.val.values))
    ELSE l

\* The bodies of the first two alternatives of rule after_value_expr.
compare_action(op, r) == IF r.ok THEN Ok(AfterValueExpr_Compare(op, r.val)) ELSE r
in_action(r) == IF r.ok THEN Ok(AfterValueExpr_In(r.val)) ELSE r

\* The bodies of rules function_call and lambda_expr, and of the value
\* alternative of rule value_expr.
function_action(f, l) == IF l.ok THEN Ok(Function(f, l.val)) ELSE l
lambda_action(i, method, v, e) ==
    IF e.ok THEN Ok(Lambda(Identifier(i), method, v, e.val)) ELSE e
value_action(v) == IF v.ok THEN Ok(Value(v.val)) ELSE v
identifier_action(i) == IF i.m THEN Match(i.pos, Ok(Identifier(i.val))) ELSE Fail

\* A word of the grammar, whitespace and a filter, from p.
filter_after(s, p, word) ==
    IF Lit(s, p, word) THEN filter(s, whitespace(s, p + Len(word))) ELSE Fail

\* rule filter: not, then or, then and, then a bare any_expr.
filter(s, p) ==
    Only({
        IF n.m THEN Match(n.pos, not_action(n.val))
        ELSE Only({
            IF ~l.m THEN Fail
            ELSE Only({
                IF ro.m THEN Match(ro.pos, join_action("or", l.val, ro.val))
                ELSE Only({
                    IF ra.m THEN Match(ra.pos, join_action("and", l.val, ra.val))
                    ELSE l
                    : ra \in {filter_after(s, whitespace(s, l.pos), <<"a", "n", "d">>)} })
                : ro \in {filter_after(s, whitespace(s, l.pos), <<"o", "r">>)} })
            : l \in {any_expr(s, p)} })
        : n \in {filter_after(s, p, <<"n", "o", "t">>)} })

\* rule any_expr: a parenthesized filter, or a value expression and what
\* follows it.
any_expr(s, p) ==
    Only({
        IF e.m /\ close_paren(s, e.pos) # 0
        THEN Match(close_paren(s, e.pos), group_action(e.val))
        ELSE Only({
            IF ~l.m THEN Fail
            ELSE Only({
                Match(r.pos, any_expr_action(l.val, r.val))
                : r \in {after_value_expr(s, whitespace(s, l.pos))} })
            : l \in {value_expr(s, p)} })
        : e \in {filter_after(s, p, <<"(">>)} })

\* rule after_value_expr: a comparison, an in list, or nothing.
after_value_expr(s, p) ==
    Only({
        IF r.m THEN Match(r.pos, compare_action(op.val, r.val))
        ELSE Only({
            IF l.m /\ close_paren(s, l.pos) # 0
            THEN Match(close_paren(s, l.pos), in_action(l.val))
            ELSE Match(p, Ok(AfterValueExpr_End))
            : l \in {IF Lit(s, p, <<"i", "n">>) /\ open_paren(s, p + 2) # 0
                     THEN filter_list(s, open_paren(s, p + 2)) ELSE Fail} })
        : op \in {comparison_op(s, p)},
          r \in {IF comparison_op(s, p).m
                 THEN value_expr(s, whitespace(s, comparison_op(s, p).pos))
                 ELSE Fail} })

\* rule value_expr: a function call, a lambda, a value, an alias or an
\* identifier, the first that matches.
value_expr(s, p) ==
    Only({
        IF f.m THEN f
        ELSE Only({
            IF la.m THEN la
            ELSE Only({
                IF v.m THEN Match(v.pos, value_action(v.val))
                ELSE first_match(<<alias_expr(s, p), identifier_action(identifier(s, p))>>)
                : v \in {value(s, p)} })
            : la \in {lambda_expr(s, p)} })
        : f \in {function_call(s, p)} })

\* rule function_call: a name and a parenthesized list of filters.
function_call(s, p) ==
    Only({
        IF ~f.m \/ open_paren(s, f.pos) = 0 THEN Fail
        ELSE Only({
            IF close_paren(s, l.pos) # 0
            THEN Match(close_paren(s, l.pos), function_action(f.val, l.val))
            ELSE Fail
            : l \in {filter_list(s, open_paren(s, f.pos))} })
        : f \in {identifier(s, p)} })

\* rule lambda_expr: name/any(var: filter) or name/all(var: filter).
lambda_expr(s, p) ==
    Only({
        IF ~i.m \/ ~Lit(s, i.pos, <<"/">>) THEN Fail
        ELSE Only({
            IF ~method.m \/ ~Lit(s, method.pos, <<"(">>) THEN Fail
            ELSE Only({
                IF ~v.m \/ ~Lit(s, whitespace(s, v.pos), <<":">>) THEN Fail
                ELSE Only({
                    IF e.m /\ close_paren(s, e.pos) # 0
                    THEN Match(close_paren(s, e.pos),
                               lambda_action(i.val, method.val, v.val, e.val))
                    ELSE Fail
                    : e \in {filter_after(s, whitespace(s, v.pos), <<":">>)} })
                : v \in {identifier(s, whitespace(s, method.pos + 1))} })
            : method \in {lambda_method(s, i.pos + 1)} })
        : i \in {identifier(s, p)} })

\* The element of rule filter_list: v:filter() (rule value_list, which no
\* rule uses, has v:value_expr()).
list_element_value_expr(s, p) == value_expr(s, p)
list_element(s, p) == filter(s, p)

\* The elements of filter() ** (_ "," _) after the ones in acc, which end
\* at p: the repetition stops before a separator no filter follows.
filter_list_rest(s, p, acc) ==
    Only({
        IF e.m THEN filter_list_rest(s, e.pos, Append(acc, e.val))
        ELSE Match(p, Collect(acc))
        : e \in {IF Lit(s, whitespace(s, p), <<",">>)
                 THEN list_element(s, whitespace(s, whitespace(s, p) + 1))
                 ELSE Fail} })

\* rule filter_list: zero or more filters separated by commas; the first
\* error of the elements, or their trees.
filter_list(s, p) ==
    Only({
        IF e.m THEN filter_list_rest(s, e.pos, <<e.val>>)
        ELSE Match(p, Ok(<<>>))
        : e \in {list_element(s, p)} })

\* The grammar's entry point, were a match of the start of the text enough.
odata_filter_parse_str_prefix(s) ==
    Only({
        IF e.m THEN Ok(e.val) ELSE Err("ParseError")
        : e \in {filter(s, 1)} })

\* The generated entry point of the grammar: rule parse_str must match the
\* whole input.
odata_filter_parse_str(s) ==
    Only({
        IF e.m /\ e.pos = Len(s) + 1 THEN Ok(e.val) ELSE Err("ParseError")
        : e \in {filter(s, 1)} })

\* pub fn parse_str: the trimmed query through the grammar; a text the
\* grammar does not match is ParseError::Parsing.
parse_str(query) ==
    Only({ IF r.ok THEN r.val ELSE Err("Parsing")
           : r \in {odata_filter_parse_str(Trim(query))} })

-----------------------------------------------------------------------------
(* Serializer: filters/to_query_string.rs *)

\* The decimal digits of a natural number.
RECURSIVE IntToDigits(_)
IntToDigits(n) ==
    IF n < 10 THEN <<DigitChars[n + 1]>>
    ELSE Append(IntToDigits(n \div 10), DigitChars[(n % 10) + 1])

\* {:0width}: the digits, padded with zeros on the left to a width.
RECURSIVE ZeroPad(_, _)
ZeroPad(ds, width) == IF Len(ds) >= width THEN ds ELSE ZeroPad(<<"0">> \o ds, width)

\* Display of BigDecimal, in plain notation: the unscaled digits with the
\* point before the last scale digits.
BigDecimal_fmt(n) ==
    LET ds == ZeroPad(n.int, n.scale + 1)
        k == Len(ds) - n.scale
    IN  IF n.scale = 0 THEN ds
        ELSE SubSeq(ds, 1, k) \o <<".">> \o SubSeq(ds, k + 1, Len(ds))

\* s.replace('\'', "''").
RECURSIVE replace_quotes_backslash(_)
replace_quotes_backslash(s) ==
    IF s = <<>> THEN <<>>
    ELSE (IF Head(s) = "'" THEN <<"\\", "'">> ELSE <<Head(s)>>)
            \o replace_quotes_backslash(Tail(s))

RECURSIVE replace_quotes(_)
replace_quotes(s) ==
    IF s = <<>> THEN <<>>
    ELSE (IF Head(s) = "'" THEN <<"'", "'">> ELSE <<Head(s)>>) \o replace_quotes(Tail(s))

\* A writer (a fmt::Write): the text it holds and the number of characters
\* it still takes, None for a String, which takes any text.  A writer with
\* a number refuses a write_str of more characters than that, and keeps what
\* it holds.
String_new == [buf |-> <<>>, room |-> None]
Writer_with_room(n) == [buf |-> <<>>, room |-> Some(n)]

\* A fmt::Result, with the writer as the call leaves it.
WriteOk(w) == [ok |-> TRUE, writer |-> w]
WriteErr(w) == [ok |-> FALSE, writer |-> w]

\* Write::write_str.
write_str(w, piece) ==
    IF w.room = None THEN WriteOk([buf |-> w.buf \o piece, room |-> None])
    ELSE IF Len(piece) <= w.room[1]
    THEN WriteOk([buf |-> w.buf \o piece, room |-> Some(w.room[1] - Len(piece))])
    ELSE WriteErr(w)

\* r?, and then the rest of the body on the writer.
AndThen(r, rest(_)) == IF r.ok THEN rest(r.writer) ELSE r

\* write!(writer, ...): one write_str for each literal piece of the format
\* string and for each argument, in order, up to the first that fails.
RECURSIVE write_fmt(_, _)
write_fmt(w, pieces) ==
    IF pieces = <<>> THEN WriteOk(w)
    ELSE AndThen(write_str(w, Head(pieces)), LAMBDA v : write_fmt(v, Tail(pieces)))

\* chrono's write_hundreds: the two digits of a number below 100, each a
\* write_char of its own.
write_hundreds(n) == << IntToDigits(n \div 10), IntToDigits(n % 10) >>

\* The year of a date as chrono writes it, in the pieces it writes: two
\* write_hundreds from 0 to 9999, else {:+05}: the sign, a zero at a time up
\* to four digits, and the digits in one piece.
Year_fmt(year) ==
    LET digits == IntToDigits(IF year < 0 THEN 0 - year ELSE year)
        zeros == [i \in 1..(4 - Len(digits)) |-> <<"0">>]
    IN  IF year >= 0 /\ year <= 9999
        THEN write_hundreds(year \div 100) \o write_hundreds(year % 100)
        ELSE << IF year < 0 THEN <<"-">> ELSE <<"+">> >> \o zeros \o << digits >>

\* Display of NaiveDate, in the pieces it writes.
NaiveDate_fmt(d) ==
    Year_fmt(d.year) \o << <<"-">> >> \o write_hundreds(d.month)
        \o << <<"-">> >> \o write_hundreds(d.day)

\* Display of NaiveTime, in the pieces it writes: HH:MM:SS, then the
\* fraction, when there is one, in 3, 6 or 9 digits ({:03}, {:06}, {:09}:
\* a zero at a time, and the digits in one piece).
NaiveTime_fmt(t) ==
    LET leap == t.nano >= NanosPerSecond
        sec == IF leap THEN t.second + 1 ELSE t.second
        nano == IF leap THEN t.nano - NanosPerSecond ELSE t.nano
        hms == write_hundreds(t.hour) \o << <<":">> >>
                   \o write_hundreds(t.minute) \o << <<":">> >>
                   \o write_hundreds(sec)
        Padded(n, width) ==
            [i \in 1..(width - Len(IntToDigits(n))) |-> <<"0">>] \o << IntToDigits(n) >>
    IN  IF nano = 0 THEN hms
        ELSE IF nano % 1000000 = 0
        THEN hms \o << <<".">> >> \o Padded(nano \div 1000000, 3)
        ELSE IF nano % 1000 = 0
        THEN hms \o << <<".">> >> \o Padded(nano \div 1000, 6)
        ELSE hms \o << <<".">> >> \o Padded(nano, 9)

\* DateTime<Utc>::to_rfc3339_opts(Millis, true): a String of the UTC date
\* and time with the fraction cut to three digits, and Z.
to_rfc3339_opts_Millis(dt) ==
    LET leap == dt.nano >= NanosPerSecond
        sec == (dt.secs % 60) + (IF leap THEN 1 ELSE 0)
        nano == IF leap THEN dt.nano - NanosPerSecond ELSE dt.nano
    IN  write_fmt(String_new, NaiveDate_fmt(CivilFromDays(dt.days))).writer.buf
            \o <<"T">>
            \o ZeroPad(IntToDigits(dt.secs \div 3600), 2) \o <<":">>
            \o ZeroPad(IntToDigits((dt.secs \div 60) % 60), 2) \o <<":">>
            \o ZeroPad(IntToDigits(sec), 2) \o <<".">>
            \o ZeroPad(IntToDigits(nano \div 1000000), 3) \o <<"Z">>

\* impl Display for CompareOperator.
CompareOperator_fmt(op) ==
    CASE op = "Equal" -> <<"e", "q">>
      [] op = "NotEqual" -> <<"n", "e">>
      [] op = "GreaterThan" -> <<"g", "t">>
      [] op = "GreaterOrEqual" -> <<"g", "e">>
      [] op = "LessThan" -> <<"l", "t">>
      [] op = "LessOrEqual" -> <<"l", "e">>
      [] op = "Has" -> <<"h", "a", "s">>

\* impl Display for LambdaOperator.
LambdaOperator_fmt(op) ==
    IF op = "Any" THEN <<"a", "n", "y">> ELSE <<"a", "l", "l">>

\* fn write_value: a literal written to the writer.
write_value(w, v) ==
    CASE v.kind = "Null" -> write_fmt(w, << <<"n", "u", "l", "l">> >>)
      [] v.kind = "Bool" -> write_fmt(w, << IF v.v THEN <<"t", "r", "u", "e">>
                                            ELSE <<"f", "a", "l", "s", "e">> >>)
      [] v.kind = "Number" -> write_fmt(w, << BigDecimal_fmt(v.v) >>)
      [] v.kind = "Uuid" -> write_fmt(w, << v.v >>)
      [] v.kind = "DateTime" -> write_fmt(w, << to_rfc3339_opts_Millis(v.v) >>)
      [] v.kind = "Date" -> write_fmt(w, NaiveDate_fmt(v.v))
      [] v.kind = "Time" -> write_fmt(w, NaiveTime_fmt(v.v))
      [] v.kind = "String" -> write_fmt(w, << <<"'">>, replace_quotes(v.v), <<"'">> >>)

RECURSIVE write_string(_, _, _)
RECURSIVE write_list(_, _, _)

\* The elements of an in list or of a function's arguments, from the i-th,
\* separated by ", ".
write_list(w, es, i) ==
    IF i > Len(es) THEN WriteOk(w)
    ELSE AndThen(IF i > 1 THEN write_fmt(w, << <<",", " ">> >>) ELSE WriteOk(w),
         LAMBDA a : AndThen(write_string(a, es[i], TRUE),
         LAMBDA b : write_list(b, es, i + 1)))

\* The parentheses of a nested or or and: none at the root.
join_parens_always(recursive_call) == TRUE
join_parens(recursive_call) == recursive_call

\* The Or and And arms of write_string, word being " or " or " and ".
write_join(w, e, word, recursive_call) ==
    AndThen(IF join_parens(recursive_call) THEN write_fmt(w, << <<"(">> >>)
            ELSE WriteOk(w),
    LAMBDA a : AndThen(write_string(a, e.lhs, TRUE),
    LAMBDA b : AndThen(write_fmt(b, << word >>),
    LAMBDA c : IF join_parens(recursive_call)
               THEN AndThen(write_string(c, e.rhs, TRUE),
                            LAMBDA d : write_fmt(d, << <<")">> >>))
               ELSE write_string(c, e.rhs, TRUE))))

\* fn write_string: a tree written to the writer.
write_string(w, e, recursive_call) ==
    CASE e.tag = "Or" -> write_join(w, e, <<" ", "o", "r", " ">>, recursive_call)
      [] e.tag = "And" -> write_join(w, e, <<" ", "a", "n", "d", " ">>, recursive_call)
      [] e.tag = "Compare" ->
            AndThen(write_string(w, e.lhs, TRUE),
            LAMBDA a : AndThen(write_fmt(a, << <<" ">>, CompareOperator_fmt(e.op), <<" ">> >>),
            LAMBDA b : write_string(b, e.rhs, TRUE)))
      [] e.tag = "In" ->
            AndThen(write_string(w, e.lhs, TRUE),
            LAMBDA a : AndThen(write_fmt(a, << <<" ", "i", "n", " ", "(">> >>),
            LAMBDA b : AndThen(write_list(b, e.values, 1),
            LAMBDA c : write_fmt(c, << <<")">> >>))))
      [] e.tag = "Not" ->
            AndThen(write_fmt(w, << <<"n", "o", "t", " ">> >>),
            LAMBDA a : write_string(a, e.inner, TRUE))
      [] e.tag = "Function" ->
            AndThen(write_fmt(w, << e.name, <<"(">> >>),
            LAMBDA a : AndThen(write_list(a, e.args, 1),
            LAMBDA b : write_fmt(b, << <<")">> >>)))
      [] e.tag = "Lambda" ->
            AndThen(write_string(w, e.lhs, TRUE),
            LAMBDA a : AndThen(write_fmt(a, << <<"/">>, LambdaOperator_fmt(e.op), <<"(">>,
                                              e.var, <<":">> >>),
            LAMBDA b : AndThen(write_string(b, e.body, TRUE),
            LAMBDA c : write_fmt(c, << <<")">> >>))))
      [] e.tag = "Identifier" -> write_fmt(w, << e.name >>)
      [] e.tag = "Alias" -> write_fmt(w, << e.name >>)
      [] e.tag = "Value" -> write_value(w, e.value)

\* pub fn write_query_string: the root is written without parentheses.
write_query_string(w, e) == write_string(w, e, FALSE)

\* pub fn to_query_string: the tree written to a new String.
to_query_string(e) ==
    Only({ IF r.ok THEN Ok(r.writer.buf) ELSE Err("fmt::Error")
           : r \in {write_query_string(String_new, e)} })

-----------------------------------------------------------------------------
(* Inputs of the validator: bounded expression trees and schemas *)

\* The largest number of nodes of an input tree.
MaxNodes == 4

\* One literal of each Value variant.
TypedLeaves ==
    { Value(Value_Null), Value(Value_Bool(TRUE)), Value(Value_Number(1)),
      Value(Value_Uuid(1)), Value(Value_DateTime(1)), Value(Value_Date(1)),
      Value(Value_Time(1)), Value(Value_String(<<"a">>)) }

\* The leaves of the trees built to a size: three literals and two identifiers.
Leaves ==
    { Value(Value_Null), Value(Value_Bool(TRUE)), Value(Value_Number(1)),
      Identifier(<<"b", "b">>), Identifier(<<"n", "n">>) }

GenCompareOperators == {"Equal"}
GenFunctionNames == {<<"f", "f">>, <<"v", "v">>, <<"u", "u">>}

RECURSIVE ExprsOfSize(_)
RECURSIVE ListsOfSize(_)

\* The sequences of trees with n nodes in all.
ListsOfSize(n) ==
    IF n = 0 THEN { <<>> }
    ELSE UNION { { <<e>> \o rest : e \in ExprsOfSize(k), rest \in ListsOfSize(n - k) }
                 : k \in 1..n }

\* The trees with exactly n nodes (a Lambda counts its collection operand).
ExprsOfSize(n) ==
    IF n = 1 THEN Leaves
    ELSE { Not(e) : e \in ExprsOfSize(n - 1) }
         \cup UNION { { Or(l, r) : l \in ExprsOfSize(i), r \in ExprsOfSize(n - 1 - i) }
                      : i \in 1..(n - 2) }
         \cup UNION { { And(l, r) : l \in ExprsOfSize(i), r \in ExprsOfSize(n - 1 - i) }
                      : i \in 1..(n - 2) }
         \cup UNION { { Compare(l, op, r) : l \in ExprsOfSize(i), r \in ExprsOfSize(n - 1 - i),
                                            op \in GenCompareOperators }
                      : i \in 1..(n - 2) }
         \cup UNION { { In(l, vs) : l \in ExprsOfSize(i), vs \in ListsOfSize(n - 1 - i) }
                      : i \in 1..(n - 1) }
         \cup { Function(f, args) : f \in GenFunctionNames, args \in ListsOfSize(n - 1) }
         \cup (IF n < 3 THEN {}
               ELSE { Lambda(Identifier(c), op, <<"b", "b">>, e) :
                        c \in {<<"b", "b">>, <<"n", "n">>}, op \in {"Any"}, e \in ExprsOfSize(n - 2) })

\* One node over literals of every pair of types.
TypedInputs ==
    { Not(l) : l \in TypedLeaves }
    \cup { Or(l, r) : l, r \in TypedLeaves }
    \cup { And(l, r) : l, r \in TypedLeaves }
    \cup { Compare(l, op, r) : l, r \in TypedLeaves, op \in CompareOperator }
    \cup { In(l, <<r>>) : l, r \in TypedLeaves }
    \cup { Function(f, <<l, r>>) : f \in {<<"f", "f">>, <<"v", "v">>}, l, r \in TypedLeaves }

\* Names looked up as they are stored: an alias with and without its '@',
\* and identifiers of the same spellings.
LookupInputs ==
    { Alias(<<"@", "p", "p">>), Alias(<<"p", "p">>),
      Identifier(<<"@", "p", "p">>), Identifier(<<"p", "p">>) }

\* The bodies of a lambda that binds v: v itself, v compared with a literal
\* and with identifiers, a body that does not mention v, and a nested lambda
\* over v that binds v again.
LambdaBodies(v) ==
    { Identifier(v),
      Compare(Identifier(v), "Equal", Value(Value_Number(1))),
      Compare(Identifier(v), "Equal", Identifier(<<"b", "b">>)),
      Compare(Identifier(<<"n", "n">>), "Equal", Identifier(v)),
      Not(Identifier(<<"b", "b">>)),
      Lambda(Identifier(v), "All", v, Compare(Identifier(v), "Equal", Value(Value_Bool(TRUE)))) }

\* Lambdas whose bound variable is, or is not, a name of the schema and of
\* the collection operand.
LambdaInputs ==
    { Lambda(Identifier(c), op, v, body) :
        c \in {<<"b", "b">>, <<"n", "n">>}, op \in {"Any"},
        <<v, body>> \in UNION { { <<w, b>> : b \in LambdaBodies(w) }
                                : w \in {<<"b", "b">>, <<"n", "n">>} } }

\* A lambda and, validated after it, a reference to its bound variable
\* outside it.
ScopeInputs ==
    LambdaInputs
    \cup { Compare(l, "Equal", Identifier(l.var)) : l \in LambdaInputs }
    \cup { And(l, Identifier(l.var)) : l \in LambdaInputs }
    \cup { In(l, <<Identifier(l.var)>>) : l \in LambdaInputs }

\* Operands with a violation of their own: an undefined identifier, an
\* undefined function, a negated number, a comparison of a number with a
\* string.
InvalidOperands ==
    { Identifier(<<"z", "z">>),
      Function(<<"q", "q">>, <<>>),
      Not(Value(Value_Number(1))),
      Compare(Value(Value_Number(1)), "Equal", Value(Value_String(<<"x">>))) }

\* Operands without a violation, of types Number, String and Boolean.
ValidOperands ==
    { Value(Value_Number(1)), Value(Value_String(<<"x">>)), Value(Value_Bool(TRUE)) }

\* Nodes with violations in several places: both operands of Or, And and
\* Compare, an operand and the node's own test, and In lists and argument
\* lists with elements of an incompatible type before, and after, elements
\* with a violation inside.
OrderInputs ==
    LET Operands == InvalidOperands \cup ValidOperands
        Lists == { <<a, b>> : a \in Operands, b \in Operands } IN
    { Or(l, r) : l \in Operands, r \in Operands }
    \cup { And(l, r) : l \in InvalidOperands, r \in InvalidOperands }
    \cup { Compare(l, "Equal", r) : l \in Operands, r \in Operands }
    \cup { In(l, vs) : l \in {Value(Value_Number(1)), Identifier(<<"z", "z">>)}, vs \in Lists }
    \cup { Function(<<"f", "f">>, <<a>>) : a \in Operands }
    \cup { Function(<<"f", "f">>, xs) : xs \in Lists }
    \cup { Function(<<"v", "v">>, xs) : xs \in Lists }

\* The trees validate is called on: up to max_nodes nodes.
ExprInputs(max_nodes) ==
    TypedLeaves \cup TypedInputs \cup LookupInputs \cup ScopeInputs \cup OrderInputs
    \cup UNION { ExprsOfSize(n) : n \in 1..max_nodes }

\* The schemas of a call: the identifier schema types bb and nn (nn is
\* undefined in the second) and one of @pp and pp, the function schema has
\* fixed and variadic signatures with 0, 1 and 2 required parameters (uu is
\* undefined in the first).
Schemas ==
    { [identifiers |-> [n \in {<<"b", "b">>, <<"n", "n">>, <<"@", "p", "p">>} |->
            IF n = <<"b", "b">> THEN "Boolean"
            ELSE IF n = <<"n", "n">> THEN "Number" ELSE "String"],
       functions |-> [f \in {<<"f", "f">>, <<"v", "v">>} |->
            IF f = <<"f", "f">> THEN Signature(<<"Number", "String">>, None, "Boolean")
            ELSE Signature(<<"Boolean">>, Some("Number"), "Number")]],
      [identifiers |-> [n \in {<<"b", "b">>, <<"p", "p">>} |->
            IF n = <<"b", "b">> THEN "Null" ELSE "Number"],
       functions |-> [f \in {<<"f", "f">>, <<"v", "v">>, <<"u", "u">>} |->
            IF f = <<"f", "f">> THEN Signature(<<"Boolean">>, None, "Number")
            ELSE IF f = <<"v", "v">> THEN Signature(<<"Number", "Boolean">>, Some("String"), "Boolean")
            ELSE Signature(<<>>, None, "String")]] }

-----------------------------------------------------------------------------
(* SpecT: one comparison of two Types, in both orders *)

TIdle ==
    /\ tpc = "off" /\ self_t = "Null" /\ other_t = "Null"
    /\ eq_st = FALSE /\ eq_ts = FALSE

VIdle ==
    /\ vpc = "off" /\ expr = Value(Value_Null)
    /\ identifiers = <<>> /\ functions = <<>>
    /\ vresult = None /\ valid = None

PIdle ==
    /\ ppc = "off" /\ operands = <<>> /\ keywords = <<>> /\ input = <<>>
    /\ parsed = None /\ rendered = None /\ reparsed = None
    /\ side = <<>> /\ keyword = "or" /\ derived = <<>> /\ derived_parsed = None

SIdle == spc = "off" /\ stree = Value(Value_Null) /\ soutput = None

InitT ==
    /\ tpc = "call" /\ self_t \in Type /\ other_t \in Type
    /\ eq_st = FALSE /\ eq_ts = FALSE
    /\ VIdle /\ PIdle /\ SIdle

\* self == other and other == self.
TypeEq ==
    /\ tpc = "call"
    /\ eq_st' = Type_eq(self_t, other_t)
    /\ eq_ts' = Type_eq(other_t, self_t)
    /\ tpc' = "done"
    /\ UNCHANGED <<self_t, other_t, vvars, pvars, svars>>

\* The caller picks the next pair.
TypeNext ==
    /\ tpc = "done"
    /\ tpc' = "call"
    /\ self_t' \in Type /\ other_t' \in Type
    /\ eq_st' = FALSE /\ eq_ts' = FALSE
    /\ UNCHANGED <<vvars, pvars, svars>>

NextT == TypeEq \/ TypeNext
SpecT == InitT /\ [][NextT]_vars

-----------------------------------------------------------------------------
(* SpecV: one call of validate or of are_types_valid *)

InitV ==
    /\ vpc = "call"
    /\ expr \in ExprInputs(MaxNodes)
    /\ \E s \in Schemas : identifiers = s.identifiers /\ functions = s.functions
    /\ vresult = None /\ valid = None
    /\ TIdle /\ PIdle /\ SIdle

Validate ==
    /\ vpc = "call"
    /\ vresult' = Some(validate(expr, identifiers, functions))
    /\ vpc' = "validated"
    /\ UNCHANGED <<expr, identifiers, functions, valid, tvars, pvars, svars>>

AreTypesValid ==
    /\ vpc = "call"
    /\ valid' = Some(are_types_valid(expr, identifiers, functions))
    /\ vpc' = "checked"
    /\ UNCHANGED <<expr, identifiers, functions, vresult, tvars, pvars, svars>>

NextV == Validate \/ AreTypesValid
SpecV == InitV /\ [][NextV]_vars


-----------------------------------------------------------------------------
(* Inputs of the parser: queries joined from short texts *)

\* The largest number of texts joined into one input.
MaxOperands == 3

\* The largest number of characters of a string value or of the text
\* between the quotes of a string literal.
MaxChars == 3

\* The sequences of at most n elements of S.
SeqsUpTo(S, n) == UNION { [1..k -> S] : k \in 0..n }

\* String literals: every text of up to MaxChars quotes, backslashes and
\* letters, between two quotes.
StringLiteralTexts ==
    { <<"'">> \o body \o <<"'">> :
        body \in SeqsUpTo({"'", "\\", "n", "r", "t", "x"}, MaxChars) }

\* The texts queries are joined from: operands, texts that are none, and
\* halves of a parenthesized filter.
OperandTexts ==
    { <<"a", "a">>,
      <<"n", "o", "t", "e", "s">>,
      <<"n", "o", "t", " ", "b", "b">>,
      <<"(", "n", "o", "t", " ", "a", "a", ")">>,
      <<"(", "a", "a">>,
      <<"b", "b", ")">>,
      <<"a", "a", " ", "e", "q", " ", "1", ".", "5">> }

\* Literals that match their pattern and fail conversion: 29 February of a
\* common year, hour 24, and a surrogate code point.
FailingLiterals ==
    { <<"2", "0", "2", "1", "-", "0", "2", "-", "2", "9">>,
      <<"2", "4", ":", "0", "0">>,
      <<"'", "\\", "u", "D", "8", "0", "0", "'">> }

\* Texts with a failing literal of the other kinds (an offset of 25 hours, a
\* zone of no name), with two failing literals, with a failing literal
\* before a text the grammar does not match, and with a local time that the
\* zone skips.
FailingTexts ==
    { <<"t", "s", " ", "e", "q", " ", "2", "0", "2", "0", "-", "0", "1", "-",
        "0", "1", "T", "0", "0", ":", "0", "0", "+", "2", "5", ":", "0", "0">>,
      <<"t", "s", " ", "e", "q", " ", "2", "0", "2", "0", "-", "0", "1", "-",
        "0", "1", "T", "0", "0", ":", "0", "0", "N", "o", "/", "Z", "o", "n", "e">>,
      <<"2", "0", "2", "1", "-", "0", "2", "-", "2", "9", "T", "2", "4", ":",
        "0", "0", "Z">>,
      <<"f", "f", "(", "2", "0", "2", "1", "-", "0", "2", "-", "2", "9", ",",
        " ", "2", "4", ":", "0", "0", ")">>,
      <<"2", "0", "2", "1", "-", "0", "2", "-", "2", "9", " ", "i", "n", " ",
        "(", "2", "4", ":", "0", "0", ")">>,
      <<"2", "0", "2", "1", "-", "0", "2", "-", "2", "9", " ", "e", "q">>,
      <<"(", "2", "4", ":", "0", "0">>,
      <<"t", "s", " ", "e", "q", " ", "2", "0", "2", "1", "-", "0", "3", "-",
        "2", "8", "T", "0", "2", ":", "3", "0", "C", "E", "T">> }

\* The texts longer chains are joined from: operands, and a text that is
\* none.
ChainTexts ==
    { <<"a", "a">>,
      <<"n", "o", "t", "e", "s">>,
      <<"(", "n", "o", "t", " ", "a", "a", ")">>,
      <<"a", "a", " ", "e", "q", " ", "1", ".", "5">> }

\* The queries of one text: literals of every kind, calls, lambdas, lists,
\* and texts the grammar does not match.
QueryTexts ==
    OperandTexts \cup
    { <<>>,
      <<"n", "o", "t">>,
      <<"n", "u", "l", "l", "s">>,
      <<"T", "R", "U", "E">>,
      <<" ", "a", "a", " ", " ", "o", "r", "\t", "b", "b", " ">>,
      <<"'", "\\", "'", "'">>,
      <<"'", "\\", "\\", "'">>,
      <<"'", "i", "t", "'", "'", "s", "'">>,
      <<"x", "x", " ", "e", "q", " ", "'", "\\", "u", "0", "0", "4", "1",
        "\\", "t", "'">>,
      <<"n", "u", "l", "l", "a", "b", "l", "e">>,
      <<"t", "r", "u", "e", "V", "a", "l", "u", "e">>,
      <<"F", "a", "l", "s", "e", "_", "1">>,
      <<"a", "a", " ", "e", "q", " ", "n", "u", "l", "l", "a", "b", "l", "e">>,
      <<"n", "o", "t", "e", "s", " ", "e", "q", " ", "a", "a">>,
      <<"U+12", "a", "a", "U+160">>,
      <<" ", "U+12", "a", "a">>,
      <<"a", "a", "U+160", " ">>,
      <<" ", "\t", "a", "a", "U+160">>,
      <<"U+160", "a", "a", "\r", "\n">>,
      <<" ", "a", "a", " ", "o", "r", " ", "b", "b", "\t">>,
      <<"U+8195", " ", "a", "a", " ", "o", "r", " ", "b", "b", "U+12288", "\n">>,
      <<"a", "a", "U+160", "o", "r", " ", "b", "b">>,
      <<"t", "s", " ", "e", "q", " ", "9", "9", "9", "9", "-", "1", "2", "-",
        "3", "1", "T", "2", "3", ":", "3", "0", "-", "0", "1", ":", "0", "0">>,
      <<"t", "s", " ", "e", "q", " ", "0", "0", "0", "0", "-", "0", "1", "-",
        "0", "1", "T", "0", "0", ":", "0", "0", "+", "0", "1", ":", "0", "0">>,
      <<"t", "s", " ", "e", "q", " ", "2", "0", "2", "1", "-", "1", "0", "-",
        "3", "1", "T", "0", "2", ":", "3", "0", "C", "E", "T">>,
      <<"t", "s", " ", "e", "q", " ", "2", "0", "2", "4", "-", "0", "7",
        "-", "0", "1", "T", "1", "2", ":", "0", "0", "E", "u", "r", "o",
        "p", "e", "/", "P", "a", "r", "i", "s">>,
      <<"t", "s", " ", "e", "q", " ", "1", "9", "8", "0", "-", "0", "7",
        "-", "0", "1", "T", "1", "2", ":", "0", "0", "C", "E", "T">>,
      <<"t", "s", " ", "e", "q", " ", "2", "0", "2", "4", "-", "0", "1",
        "-", "1", "5", "T", "0", "8", ":", "0", "0", "Z", "u", "l", "u">>,
      <<"a", "a", " ", "e", "q", " ", "2", "1", "4", "7", "4", "8", "3",
        "6", "4", "8">>,
      <<"a", "a", " ", "e", "q", " ", "1", "2", "3", "4", "5", "6", "7",
        "8", "9", "0", "1", "2", "3", "4", "5", "6", "7", "8", "9", "0",
        "1", "2", "3", ".", "5", "0">>,
      <<"f", "f", "(", ")">>,
      <<"f", "f", "(", "a", "a", ",", " ", "t", "r", "u", "e", ")">>,
      <<"f", "f", "(", "a", "a", " ", "e", "q", " ", "b", "b", ")">>,
      <<"a", "a", " ", "i", "n", " ", "(", "1", ",", " ", "2", ")">>,
      <<"x", "s", "/", "a", "n", "y", "(", "x", "x", ":", " ", "x", "x", " ",
        "g", "t", " ", "1", ".", " ", "a", "n", "d", " ", "a", "a", ")">>,
      <<"x", "s", " ", "/", "a", "l", "l", "(", "x", "x", ":", "a", "a", ")">>,
      <<"@", "p", "p", " ", "n", "e", " ", "n", "u", "l", "l">>,
      <<"d", "d", " ", "e", "q", " ", "2", "0", "2", "0", "-", "0", "2", "-",
        "2", "9">>,
      <<"d", "d", " ", "e", "q", " ", "2", "0", "2", "1", "-", "0", "2", "-",
        "2", "9">>,
      <<"t", "t", " ", "e", "q", " ", "9", ":", "0", "5", ":", "6", "0", ".",
        "5">>,
      <<"t", "t", " ", "e", "q", " ", "2", "4", ":", "0", "0">>,
      <<"t", "s", " ", "e", "q", " ", "2", "0", "2", "0", "-", "0", "1", "-",
        "0", "1", "T", "2", "3", ":", "3", "0", ":", "1", "5", ".", "1", "2",
        "3", "4", "-", "0", "1", ":", "0", "0">>,
      <<"t", "s", " ", "e", "q", " ", "2", "0", "2", "0", "-", "0", "1", "-",
        "0", "1", "T", "0", "0", ":", "0", "0", "Z", "U", "T", "C">>,
      <<"t", "s", " ", "e", "q", " ", "2", "0", "2", "0", "-", "1", "2", "-",
        "3", "1", "T", "2", "3", ":", "5", "9", ":", "5", "9", "E", "t", "c",
        "/", "G", "M", "T", "+", "1">>,
      <<"i", "d", " ", "e", "q", " ", "0", "1", "2", "3", "A", "B", "C", "D",
        "-", "0", "1", "2", "3", "-", "4", "5", "6", "7", "-", "8", "9", "a",
        "b", "-", "0", "1", "2", "3", "4", "5", "6", "7", "8", "9", "A", "B">>,
      <<"a", "a", " ", "h", "a", "s", " ", "0", ".", "0", "5">>,
      <<"(", "(", "a", "a", " ", "a", "n", "d", " ", "b", "b", ")", " ", "o",
        "r", " ", "c", "c", ")", " ", "a", "n", "d", " ", "n", "o", "t", " ",
        "d", "d">> }

\* The texts a query of n texts is joined from.
TextsOf(n) ==
    IF n = 1 THEN QueryTexts \cup StringLiteralTexts \cup FailingLiterals \cup FailingTexts
    ELSE IF n = 2 THEN OperandTexts \cup FailingLiterals ELSE ChainTexts

Keywords == {"or", "and"}

\* The text of a keyword.
KeywordText(k) == IF k = "or" THEN <<"o", "r">> ELSE <<"a", "n", "d">>

\* x1 o1 x2 ... : the texts joined by the keywords, with single spaces.
RECURSIVE JoinTexts(_, _)
JoinTexts(xs, ks) ==
    IF Len(xs) = 1 THEN xs[1]
    ELSE xs[1] \o <<" ">> \o KeywordText(ks[1]) \o <<" ">> \o JoinTexts(Tail(xs), Tail(ks))

\* The texts joined to a parenthesized or negated input, some with
\* whitespace at their ends.
OtherTexts ==
    { <<"c", "c">>,
      <<"c", "c", " ", "a", "n", "d", " ", "d", "d">>,
      <<"n", "o", "t", " ", "c", "c">>,
      <<"U+160", "c", "c">>,
      <<" ", "U+12", "c", "c">>,
      <<"\t", " ", "c", "c", "U+160", " ">> }

-----------------------------------------------------------------------------
(* SpecP: one input through parse_str and to_query_string *)

InitP ==
    /\ ppc = "call"
    /\ \E n \in 1..MaxOperands :
            /\ operands \in [1..n -> TextsOf(n)]
            /\ keywords \in [1..(n - 1) -> Keywords]
    /\ input = JoinTexts(operands, keywords)
    /\ parsed = None /\ rendered = None /\ reparsed = None
    /\ side = <<>> /\ keyword = "or" /\ derived = <<>> /\ derived_parsed = None
    /\ TIdle /\ VIdle /\ SIdle

\* parse_str(query) of the input.
ParseStr ==
    /\ ppc = "call"
    /\ parsed' = Some(parse_str(input))
    /\ ppc' = "parsed"
    /\ UNCHANGED <<operands, keywords, input, rendered, reparsed,
                   side, keyword, derived, derived_parsed, tvars, vvars, svars>>

\* to_query_string of the tree parse_str returned.
ToQueryString ==
    /\ ppc = "parsed" /\ parsed[1].ok
    /\ rendered' = Some(to_query_string(parsed[1].val))
    /\ ppc' = "rendered"
    /\ UNCHANGED <<operands, keywords, input, parsed, reparsed,
                   side, keyword, derived, derived_parsed, tvars, vvars, svars>>

\* parse_str of the text to_query_string returned.
Reparse ==
    /\ ppc = "rendered" /\ rendered[1].ok
    /\ reparsed' = Some(parse_str(rendered[1].val))
    /\ ppc' = "reparsed"
    /\ UNCHANGED <<operands, keywords, input, parsed, rendered,
                   side, keyword, derived, derived_parsed, tvars, vvars, svars>>

\* parse_str of a text derived from the input.
ParseDerived(pc, text) ==
    /\ ppc = "parsed"
    /\ derived' = text
    /\ derived_parsed' = Some(parse_str(text))
    /\ ppc' = pc
    /\ UNCHANGED <<operands, keywords, input, parsed, rendered, reparsed,
                   tvars, vvars, svars>>

\* parse_str("not " + query).
ParseNegated ==
    /\ ParseDerived("negated", <<"n", "o", "t", " ">> \o input)
    /\ UNCHANGED <<side, keyword>>

\* parse_str("(" + query + ")").
ParseGrouped ==
    /\ ParseDerived("grouped", <<"(">> \o input \o <<")">>)
    /\ UNCHANGED <<side, keyword>>

\* parse_str("(" + query + ") or " + side), and with and.
ParseGroupedJoin ==
    \E g \in OtherTexts, k \in Keywords :
        /\ ParseDerived("grouped_join",
                        <<"(">> \o input \o <<")", " ">> \o KeywordText(k) \o <<" ">> \o g)
        /\ side' = g /\ keyword' = k

\* parse_str(side + " or not " + query), and with and.
ParseJoinNegated ==
    \E h \in OtherTexts, k \in Keywords :
        /\ ParseDerived("join_negated",
                        h \o <<" ">> \o KeywordText(k) \o <<" ", "n", "o", "t", " ">> \o input)
        /\ side' = h /\ keyword' = k

\* The whitespace put between tokens.
Whitespaces == { <<" ", " ">>, <<"\t">>, <<"\r", "\n">> }

\* The characters that are tokens by themselves where no literal holds them.
Punctuation == {"(", ")", ",", ":", "/"}

RECURSIVE Respaced(_, _)
\* The text with w for every space and w before and after every punctuation
\* character.
Respaced(t, w) ==
    IF t = <<>> THEN <<>>
    ELSE (IF Head(t) = " " THEN w
          ELSE IF Head(t) \in Punctuation THEN w \o <<Head(t)>> \o w
          ELSE <<Head(t)>>) \o Respaced(Tail(t), w)

\* parse_str(w + respaced query + w).
ParseRespaced ==
    \E w \in Whitespaces :
        /\ ParseDerived("respaced", w \o Respaced(input, w) \o w)
        /\ side' = w /\ UNCHANGED keyword

\* parse_str(query + " ]"): a token no rule matches after the query.
ParseTrailing ==
    /\ ParseDerived("trailing", input \o <<" ", "]">>)
    /\ UNCHANGED <<side, keyword>>

\* parse_str(query + " eq " + side).
ParseCompared ==
    \E r \in FailingLiterals :
        /\ ParseDerived("compared", input \o <<" ", "e", "q", " ">> \o r)
        /\ side' = r /\ UNCHANGED keyword

\* parse_str("ff(" + query + ")").
ParseAsArgument ==
    /\ ParseDerived("argument", <<"f", "f", "(">> \o input \o <<")">>)
    /\ UNCHANGED <<side, keyword>>

\* Names of one character.
OneCharacterNames == { <<"a">>, <<"_">> }

\* The places of a text where rule identifier is applied.
IdentifierPositions == { "bare", "left operand", "right operand", "function name",
                         "lambda collection", "lambda variable" }

\* A text with the name at an identifier position and the query around it.
NamedAt(position, name, q) ==
    CASE position = "bare" -> name
      [] position = "left operand" -> name \o <<" ", "e", "q", " ">> \o q
      [] position = "right operand" -> q \o <<" ", "e", "q", " ">> \o name
      [] position = "function name" -> name \o <<"(">> \o q \o <<")">>
      [] position = "lambda collection" ->
            name \o <<"/", "a", "n", "y", "(", "x", "x", ":", " ">> \o q \o <<")">>
      [] position = "lambda variable" ->
            <<"x", "s", "/", "a", "n", "y", "(">> \o name \o <<":", " ">> \o name
            \o <<" ", "e", "q", " ", "1", " ", "o", "r", " ">> \o q \o <<")">>

\* parse_str of a text with a one-character name at an identifier position.
ParseShortened ==
    \E position \in IdentifierPositions, name \in OneCharacterNames :
        /\ ParseDerived("shortened", NamedAt(position, name, input))
        /\ side' = name /\ UNCHANGED keyword

NextP ==
    \/ ParseStr \/ ToQueryString \/ Reparse
    \/ ParseNegated \/ ParseGrouped \/ ParseGroupedJoin \/ ParseJoinNegated
    \/ ParseRespaced \/ ParseTrailing \/ ParseCompared \/ ParseAsArgument
    \/ ParseShortened
SpecP == InitP /\ [][NextP]_vars

-----------------------------------------------------------------------------
(* SpecS: one call of to_query_string on a tree built directly *)

\* String values with quotes, backslashes, a line feed and a tab.
StringValues == SeqsUpTo({"'", "\\", "\n", "\t", "x"}, MaxChars)

SerializerLeaves == { Identifier(<<"a", "a">>), Value(Value_Bool(TRUE)) }

\* The Or and And nodes over the trees of K.
JoinsOver(K) == { Or(l, r) : l, r \in K } \cup { And(l, r) : l, r \in K }

\* The nodes of every kind over the trees of K.
ParentsOver(K) ==
    JoinsOver(K)
    \cup { Not(k) : k \in K }
    \cup { Compare(l, "Equal", r) : l, r \in K }
    \cup { In(l, <<>>) : l \in K }
    \cup { In(l, <<r, l>>) : l, r \in K }
    \cup { Function(<<"f", "f">>, <<l, r>>) : l, r \in K }
    \cup { Lambda(Identifier(<<"x", "s">>), "Any", <<"x", "x">>, k) : k \in K }

\* Trees with an Or or And node under a node of every kind, and under a node
\* that is itself nested.
SerializerTrees ==
    SerializerLeaves
    \cup ParentsOver(SerializerLeaves \cup JoinsOver(SerializerLeaves))
    \cup ParentsOver({ Identifier(<<"a", "a">>),
                       Not(Or(Identifier(<<"a", "a">>), Identifier(<<"b", "b">>))),
                       And(Identifier(<<"a", "a">>),
                           Or(Identifier(<<"b", "b">>), Identifier(<<"c", "c">>))) })
    \cup { Value(Value_String(s)) : s \in StringValues }
    \cup { Value(Value_Date([year |-> y, month |-> 1, day |-> 1]))
           : y \in {0 - 12345, 0 - 1, 0, 9999, 10000} }
    \cup { Value(Value_DateTime([days |-> d, secs |-> 1800, nano |-> 0]))
           : d \in {0 - 719529, 0, 2932897} }

\* The largest number of characters a bounded writer takes.
MaxRoom == 6

InitS ==
    /\ spc = "call" /\ stree \in SerializerTrees /\ soutput = None
    /\ TIdle /\ VIdle /\ PIdle

\* to_query_string(&stree).
Serialize ==
    /\ spc = "call"
    /\ soutput' = Some(to_query_string(stree))
    /\ spc' = "written"
    /\ UNCHANGED <<stree, tvars, vvars, pvars>>

\* write_query_string(&mut writer, &stree), the writer taking room characters.
WriteQueryString ==
    \E room \in 0..MaxRoom :
        /\ spc = "call"
        /\ soutput' = Some(write_query_string(Writer_with_room(room), stree))
        /\ spc' = "refused_or_written"
        /\ UNCHANGED <<stree, tvars, vvars, pvars>>

NextS == Serialize \/ WriteQueryString
SpecS == InitS /\ [][NextS]_vars

-----------------------------------------------------------------------------
(* Claims about Type equality and the validator *)

\* Two types are the same variant, or one of them is Null.
WildcardCompatible(a, b) == a = b \/ a = "Null" \/ b = "Null"

\* The results of validating the operands of the call in the state.
LhsResult == validate(expr.lhs, identifiers, functions)
RhsResult == validate(expr.rhs, identifiers, functions)
InnerResult == validate(expr.inner, identifiers, functions)
ArgResult(i) == validate(expr.args[i], identifiers, functions)

\* C2: for Or(l, r) and And(l, r) whose operands validate, the result is
\* Ok(Boolean) only when both operand types are exactly Boolean, and is
\* Err(LogicalJoinRequiresBooleans{lhs, rhs}) for any other operand type,
\* Null included.
C2_JoinRequiresExactBooleans ==
    (vpc = "validated" /\ expr.tag \in {"Or", "And"} /\ LhsResult.ok /\ RhsResult.ok)
    => vresult[1] = IF LhsResult.val = "Boolean" /\ RhsResult.val = "Boolean"
                    THEN Ok("Boolean")
                    ELSE Err(LogicalJoinRequiresBooleans(LhsResult.val, RhsResult.val))

\* C3: for Not(e) whose operand validates to t, the result is Ok(Boolean) when
\* t is Boolean and Err(LogicalNotRequiresBoolean{given: t}) for every other
\* t, Null included.
C3_NotRequiresExactBoolean ==
    (vpc = "validated" /\ expr.tag = "Not" /\ InnerResult.ok)
    => vresult[1] = IF InnerResult.val = "Boolean"
                    THEN Ok("Boolean")
                    ELSE Err(LogicalNotRequiresBoolean(InnerResult.val))

\* C4: are_types_valid returns Ok(true) exactly when validate returns
\* Ok(Boolean), Ok(false) when validate returns Ok of any other type (Null
\* included), and the Err that validate returns.
C4_AreTypesValidIffBoolean ==
    vpc = "checked"
    => LET v == validate(expr, identifiers, functions) IN
       valid[1] = IF v.ok THEN Ok(v.val = "Boolean") ELSE v

\* C5: Null equals every type on either side; two non-Null types are equal
\* iff they are the same variant; the relation is reflexive and symmetric,
\* and not transitive (Null == Number, Null == String, Number # String).
C5_TypeEquality ==
    /\ tpc = "done" =>
        /\ (self_t = "Null" \/ other_t = "Null") => (eq_st /\ eq_ts)
        /\ (self_t # "Null" /\ other_t # "Null") => (eq_st <=> self_t = other_t)
        /\ self_t = other_t => eq_st
        /\ eq_st <=> eq_ts
    /\ Type_eq("Null", "Number") /\ Type_eq("Null", "String")
    /\ ~Type_eq("Number", "String")

\* Null on the left has been compared with a non-Null type, and found equal.
C5_Witness ==
    tpc = "done" /\ self_t = "Null" /\ other_t = "Number" /\ eq_st /\ eq_ts

\* C9: a fixed signature with N required parameters called with M # N
\* arguments fails with IncorrectFunctionArgumentsCount{name, false, N, M}; a
\* variadic one fails with {name, true, N, M} when M < N and passes the arity
\* check when M >= N; the check comes before the arguments are validated, so
\* the error is the same whatever the arguments are.
C9_FunctionArity ==
    (vpc = "validated" /\ expr.tag = "Function" /\ expr.name \in DOMAIN functions)
    => LET sig == functions[expr.name]
           N == Len(sig.types)
           M == Len(expr.args)
           count_error(v) == Err(IncorrectFunctionArgumentsCount(expr.name, v, N, M))
       IN  /\ (sig.variadic = None /\ M # N) => vresult[1] = count_error(FALSE)
           /\ (sig.variadic = None /\ M = N) => vresult[1] # count_error(FALSE)
           /\ (sig.variadic # None /\ M < N) => vresult[1] = count_error(TRUE)
           /\ (sig.variadic # None /\ M >= N) => vresult[1] # count_error(TRUE)

\* A fixed signature was called with too many arguments, one of which does
\* not validate by itself, and the call was rejected for its arity.
C9_Witness ==
    /\ vpc = "validated" /\ expr.tag = "Function" /\ expr.name \in DOMAIN functions
    /\ functions[expr.name].variadic = None
    /\ Len(expr.args) > Len(functions[expr.name].types)
    /\ \E i \in 1..Len(expr.args) : ~ArgResult(i).ok
    /\ ~vresult[1].ok /\ vresult[1].err.kind = "IncorrectFunctionArgumentsCount"

\* The arity check passes.
ArityAccepted(sig, M) ==
    \/ (sig.variadic = None /\ M = Len(sig.types))
    \/ (sig.variadic # None /\ M >= Len(sig.types))

\* The type argument i is compared with: required type i, or the variadic
\* type past the required parameters.
ClaimedExpected(sig, i) ==
    IF i <= Len(sig.types) THEN sig.types[i] ELSE sig.variadic[1]

\* C10: once the arity check has passed, argument i is compared (Null being
\* a wildcard) with required type i when i <= N and with the variadic type
\* when i > N, and the first argument whose type differs yields
\* IncorrectFunctionArgumentType{name, position: i, expected, given}; a fixed
\* signature never meets the Null that pads the expected types.
C10_FunctionArgumentTypes ==
    (/\ vpc = "validated" /\ expr.tag = "Function" /\ expr.name \in DOMAIN functions
     /\ ArityAccepted(functions[expr.name], Len(expr.args)))
    => LET sig == functions[expr.name]
           M == Len(expr.args)
           fits(i) == /\ ArgResult(i).ok
                      /\ WildcardCompatible(ArgResult(i).val, ClaimedExpected(sig, i))
       IN  /\ \A i \in 1..M :
                (/\ \A j \in 1..(i - 1) : fits(j)
                 /\ ArgResult(i).ok /\ ~fits(i))
                => vresult[1] = Err(IncorrectFunctionArgumentType(
                        expr.name, i, ClaimedExpected(sig, i), ArgResult(i).val))
           /\ (\A i \in 1..M : fits(i)) => vresult[1].ok
           /\ sig.variadic = None
                => \A i \in 1..M : expected_types(sig, M)[i] = sig.types[i]

\* A variadic call was rejected for an argument past the required ones, which
\* was compared with the variadic type.
C10_Witness ==
    /\ vpc = "validated" /\ expr.tag = "Function" /\ expr.name \in DOMAIN functions
    /\ functions[expr.name].variadic # None
    /\ ~vresult[1].ok /\ vresult[1].err.kind = "IncorrectFunctionArgumentType"
    /\ vresult[1].err.name = expr.name
    /\ vresult[1].err.position > Len(functions[expr.name].types)
    /\ vresult[1].err.expected = functions[expr.name].variadic[1]

\* Every argument of the call in the state validates and fits the type its
\* position is compared with.
AllArgumentsFit(sig) ==
    \A i \in 1..Len(expr.args) :
        ArgResult(i).ok /\ WildcardCompatible(ArgResult(i).val, ClaimedExpected(sig, i))

\* C11: validate(Function(name, args)) is Err(UndefinedFunction{name})
\* whenever name is not a key of the function schema, whatever the arguments
\* are; when the name is defined and the arity and argument checks pass, it
\* is Ok of the signature's declared return type, whatever that type is.
C11_FunctionLookupAndResult ==
    (vpc = "validated" /\ expr.tag = "Function")
    => /\ expr.name \notin DOMAIN functions
            => vresult[1] = Err(UndefinedFunction(expr.name))
       /\ (/\ expr.name \in DOMAIN functions
           /\ ArityAccepted(functions[expr.name], Len(expr.args))
           /\ AllArgumentsFit(functions[expr.name]))
            => vresult[1] = Ok(functions[expr.name].ret)

\* An undefined function was called with an argument that does not validate
\* by itself, and the call was rejected for its name.
C11_Witness ==
    /\ vpc = "validated" /\ expr.tag = "Function" /\ expr.name \notin DOMAIN functions
    /\ \E i \in 1..Len(expr.args) : ~ArgResult(i).ok
    /\ vresult[1] = Err(UndefinedFunction(expr.name))

RECURSIVE WithNullFor(_, _)
\* The tree e with a Null literal in the place of every reference to the
\* name v.
WithNullFor(e, v) ==
    CASE e.tag \in {"Or", "And"} ->
            [e EXCEPT !.lhs = WithNullFor(e.lhs, v), !.rhs = WithNullFor(e.rhs, v)]
      [] e.tag = "Not" -> Not(WithNullFor(e.inner, v))
      [] e.tag = "Compare" ->
            Compare(WithNullFor(e.lhs, v), e.op, WithNullFor(e.rhs, v))
      [] e.tag = "In" ->
            In(WithNullFor(e.lhs, v),
               [i \in 1..Len(e.values) |-> WithNullFor(e.values[i], v)])
      [] e.tag = "Function" ->
            Function(e.name, [i \in 1..Len(e.args) |-> WithNullFor(e.args[i], v)])
      [] e.tag = "Lambda" ->
            Lambda(WithNullFor(e.lhs, v), e.op, e.var, WithNullFor(e.body, v))
      [] e.tag \in {"Identifier", "Alias"} ->
            IF e.name = v THEN Value(Value_Null) ELSE e
      [] e.tag = "Value" -> e

\* A lambda l validated under the identifier schema ids: the collection
\* operand is resolved in ids; the body is typed as if every reference to
\* the bound variable were a Null literal and every other name were resolved
\* in ids.
LambdaScoped(l, ids, r) ==
    LET coll == validate(l.lhs, ids, functions)
        body == validate(WithNullFor(l.body, l.var), ids, functions)
    IN  /\ ~coll.ok => r = coll
        /\ (coll.ok /\ ~body.ok) => r = body
        /\ (coll.ok /\ body.ok) =>
                r \in {Ok("Boolean"), Err(LogicalNotRequiresBoolean(body.val))}
        /\ (coll.ok /\ body.ok /\ body.val = "Boolean") => r = Ok("Boolean")

\* The result of comparing a lambda with a reference to its bound variable
\* that stands after it: the reference has the caller's type for the name.
OutsideReference(l, ids, r) ==
    validate(l, ids, functions).ok
    => r = IF l.var \notin DOMAIN ids THEN Err(UndefinedIdentifier(l.var))
           ELSE IF WildcardCompatible("Boolean", ids[l.var]) THEN Ok("Boolean")
           ELSE Err(ComparingIncompatibleTypes("Boolean", ids[l.var]))

\* C12: in validate(Lambda(coll, op, v, body)) the bound variable v has type
\* Null only inside body, where it shadows an entry of the same name in the
\* caller's identifier schema; coll and every node outside the lambda (a
\* sibling validated after it) are resolved against the caller's schema, and
\* the call leaves that schema unchanged.
C12_LambdaScoping ==
    [][(vpc = "call" /\ vpc' = "validated")
       => /\ identifiers' = identifiers
          /\ expr.tag = "Lambda" => LambdaScoped(expr, identifiers, vresult'[1])
          /\ (/\ expr.tag = "Compare" /\ expr.lhs.tag = "Lambda"
              /\ expr.rhs = Identifier(expr.lhs.var))
                => OutsideReference(expr.lhs, identifiers, vresult'[1])]_vars

\* A lambda whose bound variable is a Boolean or Number name of the caller's
\* schema was accepted, with a body that does not validate under the caller's
\* schema alone.
C12_Witness ==
    /\ vpc = "validated" /\ expr.tag = "Lambda"
    /\ expr.var \in DOMAIN identifiers /\ identifiers[expr.var] # "Null"
    /\ ~validate(expr.body, identifiers, functions).ok
    /\ vresult[1] = Ok("Boolean")

\* C13: when the collection operand and the body validate, the result of
\* validate(Lambda(coll, op, v, body)) is Ok(Boolean) if the body's type
\* under the scoped schema is Boolean and Err(LogicalNotRequiresBoolean{given:
\* t}) if the body's type t is anything else, Null (a body that is just the
\* bound variable) included.
C13_LambdaBodyBoolean ==
    (vpc = "validated" /\ expr.tag = "Lambda" /\ LhsResult.ok)
    => LET body == validate(WithNullFor(expr.body, expr.var), identifiers, functions) IN
       body.ok => vresult[1] = IF body.val = "Boolean"
                               THEN Ok("Boolean")
                               ELSE Err(LogicalNotRequiresBoolean(body.val))

\* C14: when both operands validate to types a and b, the result of
\* validate(Compare(l, op, r)) is Ok(Boolean) iff a and b are the same
\* variant or either is Null, and Err(ComparingIncompatibleTypes{lhs: a, rhs:
\* b}) otherwise; the outcome is the same for all seven operators.
C14_CompareWildcard ==
    (vpc = "validated" /\ expr.tag = "Compare" /\ LhsResult.ok /\ RhsResult.ok)
    => /\ vresult[1] = IF WildcardCompatible(LhsResult.val, RhsResult.val)
                       THEN Ok("Boolean")
                       ELSE Err(ComparingIncompatibleTypes(LhsResult.val, RhsResult.val))
       /\ \A op \in CompareOperator :
            validate(Compare(expr.lhs, op, expr.rhs), identifiers, functions) = vresult[1]

\* A Null operand was compared with a Number by an operator other than eq,
\* and accepted.
C14_Witness ==
    /\ vpc = "validated" /\ expr.tag = "Compare" /\ expr.op = "Has"
    /\ LhsResult = Ok("Null") /\ RhsResult = Ok("Number")
    /\ vresult[1] = Ok("Boolean")

\* The result of validating element i of the list of the In in the state.
ValueResult(i) == validate(expr.values[i], identifiers, functions)

\* Element i of the list validates to a type that fits the left operand's.
ValueFits(i) ==
    ValueResult(i).ok /\ WildcardCompatible(LhsResult.val, ValueResult(i).val)

\* C15: validate(In(l, [e1..en])) is Ok(Boolean) iff the type of l is
\* wildcard-compatible with the type of every ei (vacuously for an empty
\* list; the elements need not be compatible with each other when l is
\* Null); otherwise the error is ComparingIncompatibleTypes{lhs: type of l,
\* rhs: type of the first incompatible element in list order}.
C15_InWildcard ==
    (vpc = "validated" /\ expr.tag = "In" /\ LhsResult.ok)
    => LET n == Len(expr.values) IN
       /\ (\A i \in 1..n : ValueResult(i).ok)
            => (vresult[1] = Ok("Boolean") <=> \A i \in 1..n : ValueFits(i))
       /\ \A i \in 1..n :
            (/\ \A j \in 1..(i - 1) : ValueFits(j)
             /\ ValueResult(i).ok /\ ~ValueFits(i))
            => vresult[1] = Err(ComparingIncompatibleTypes(LhsResult.val, ValueResult(i).val))

\* A Null left operand was accepted with two elements of different types.
C15_Witness ==
    /\ vpc = "validated" /\ expr.tag = "In" /\ LhsResult = Ok("Null")
    /\ Len(expr.values) = 2
    /\ ValueResult(1).ok /\ ValueResult(2).ok
    /\ ~WildcardCompatible(ValueResult(1).val, ValueResult(2).val)
    /\ vresult[1] = Ok("Boolean")

\* C16: validate(Identifier(n)) and validate(Alias(n)) are Ok(schema[n]) when
\* n is a key of the identifier schema and Err(UndefinedIdentifier{name: n})
\* otherwise; an alias is looked up under its full stored name, the leading
\* '@' that the parser keeps included, in the same schema as identifiers.
C16_IdentifierAndAliasLookup ==
    (vpc = "validated" /\ expr.tag \in {"Identifier", "Alias"})
    => /\ vresult[1] = IF expr.name \in DOMAIN identifiers
                       THEN Ok(identifiers[expr.name])
                       ELSE Err(UndefinedIdentifier(expr.name))
       /\ (expr.tag = "Alias" /\ Head(expr.name) = "@")
            => parse_str(expr.name) = Ok(expr)

\* The alias @pp was looked up in a schema that defines pp and not @pp, and
\* was undefined.
C16_Witness ==
    /\ vpc = "validated" /\ expr = Alias(<<"@", "p", "p">>)
    /\ <<"p", "p">> \in DOMAIN identifiers
    /\ vresult[1] = Err(UndefinedIdentifier(<<"@", "p", "p">>))

\* The elements before position i of a list pass: each validates, to a type
\* equal to the one expected at its position.
ElementsPass(es, expected, i) ==
    \A j \in 1..(i - 1) :
        LET r == validate(es[j], identifiers, functions) IN
        r.ok /\ Type_eq(r.val, expected[j])

\* The result validate gives for position i of a list once the elements
\* before it have passed: the violation inside element i, else the mismatch
\* of its type.
ElementDecides(es, expected, i, mismatch_at(_), res) ==
    LET r == validate(es[i], identifiers, functions) IN
    ElementsPass(es, expected, i)
    => /\ ~r.ok => res = r
       /\ (r.ok /\ ~Type_eq(r.val, expected[i])) => res = Err(mismatch_at(i))

\* C26: the violation validate returns is the first of a left-to-right,
\* depth-first traversal: one inside the left operand of Or, And and Compare
\* before one inside the right operand, and both before the node's own test;
\* for In elements and Function arguments, a violation inside element i or
\* a mismatch of its type before anything about element i+1.
C26_FirstViolationLeftToRight ==
    vpc = "validated" =>
        LET V(x) == validate(x, identifiers, functions)
            res == vresult[1] IN
        /\ expr.tag \in {"Or", "And", "Compare"} =>
                /\ ~V(expr.lhs).ok => res = V(expr.lhs)
                /\ (V(expr.lhs).ok /\ ~V(expr.rhs).ok) => res = V(expr.rhs)
        /\ expr.tag = "In" =>
                /\ ~V(expr.lhs).ok => res = V(expr.lhs)
                /\ V(expr.lhs).ok =>
                    \A i \in 1..Len(expr.values) :
                        LET lhs_type == V(expr.lhs).val
                            Mismatch(k) ==
                                ComparingIncompatibleTypes(lhs_type, V(expr.values[k]).val)
                        IN  ElementDecides(expr.values,
                                           [k \in 1..Len(expr.values) |-> lhs_type],
                                           i, Mismatch, res)
        /\ (/\ expr.tag = "Function" /\ expr.name \in DOMAIN functions
            /\ ~arity_mismatch(functions[expr.name], Len(expr.args))) =>
                \A i \in 1..Len(expr.args) :
                    LET expected == expected_types(functions[expr.name], Len(expr.args))
                        Mismatch(k) ==
                            IncorrectFunctionArgumentType(expr.name, k, expected[k],
                                                          V(expr.args[k]).val)
                    IN  ElementDecides(expr.args, expected, i, Mismatch, res)

\* An In list whose first element has an incompatible type and whose second
\* element is an undefined identifier: the mismatch has been returned.
C26_Witness ==
    /\ vpc = "validated"
    /\ expr = In(Value(Value_Number(1)),
                 <<Value(Value_String(<<"x">>)), Identifier(<<"z", "z">>)>>)
    /\ vresult[1] = Err(ComparingIncompatibleTypes("Number", "String"))
    /\ validate(expr.values[2], identifiers, functions)
            = Err(UndefinedIdentifier(<<"z", "z">>))

\* The argument count a signature allows: exactly its types without a
\* variadic type, at least its types with one.
ArityAllowed(sig, n_args) ==
    IF sig.variadic = None THEN n_args = Len(sig.types) ELSE n_args >= Len(sig.types)

RECURSIVE Sound(_, _, _)
\* Every Identifier and Alias of e is a key of ids, the schema extended with
\* the bound variables of the lambdas whose body holds it; every Function is
\* a key of fns called with an allowed number of arguments; every Or, And,
\* Not, Compare, In and Lambda node validates to Boolean where it stands.
Sound(e, ids, fns) ==
    LET All(es) == \A i \in 1..Len(es) : Sound(es[i], ids, fns)
        IsBoolean == validate(e, ids, fns) = Ok("Boolean") IN
    CASE e.tag \in {"Or", "And", "Compare"} ->
            IsBoolean /\ Sound(e.lhs, ids, fns) /\ Sound(e.rhs, ids, fns)
      [] e.tag = "Not" -> IsBoolean /\ Sound(e.inner, ids, fns)
      [] e.tag = "In" -> IsBoolean /\ Sound(e.lhs, ids, fns) /\ All(e.values)
      [] e.tag = "Lambda" ->
            /\ IsBoolean /\ Sound(e.lhs, ids, fns)
            /\ Sound(e.body, [n \in DOMAIN ids \cup {e.var} |->
                                IF n = e.var THEN "Null" ELSE ids[n]], fns)
      [] e.tag = "Function" ->
            /\ e.name \in DOMAIN fns
            /\ ArityAllowed(fns[e.name], Len(e.args))
            /\ All(e.args)
      [] e.tag \in {"Identifier", "Alias"} -> e.name \in DOMAIN ids
      [] e.tag = "Value" -> TRUE

\* C27: when validate returns Ok, every Identifier and Alias of the tree is
\* a key of the identifier schema or the bound variable of an enclosing
\* lambda's body, every Function is a key of the function schema called with
\* an allowed number of arguments, and every Or, And, Not, Compare, In and
\* Lambda node of the tree validates to Boolean.
C27_AcceptedTreesAreSound ==
    (vpc = "validated" /\ vresult[1].ok) => Sound(expr, identifiers, functions)

\* A lambda whose bound variable is not a key of the schema, with a body that
\* compares the variable, has been accepted.
C27_Witness ==
    /\ vpc = "validated" /\ vresult[1] = Ok("Boolean")
    /\ expr.tag = "Lambda" /\ expr.var \notin DOMAIN identifiers
    /\ expr.body = Compare(Identifier(expr.var), "Equal", Value(Value_Number(1)))

-----------------------------------------------------------------------------
(* Claims about the parser and the serializer *)

\* C1: a query that parses to a tree, written back by to_query_string and
\* parsed again, gives a tree equal to the first one.
C1_RoundTrip ==
    ppc = "reparsed" => reparsed[1] = parsed[1]

\* An operand with no logical operator at its top level: rule any_expr
\* matches the whole text without an error, and parse_str reads the text as
\* that operand and not as a not, or or and filter.
IsOperand(x) ==
    \E a \in {any_expr(x, 1)} :
        /\ a.m /\ a.pos = Len(x) + 1 /\ a.val.ok
        /\ parse_str(x) = a.val

\* The node a keyword builds.
Join(k, l, r) == IF k = "or" THEN Or(l, r) ELSE And(l, r)

\* O1(x1, O2(x2, ...)): the trees nested to the right in text order.
RECURSIVE RightNest(_, _)
RightNest(ts, ks) ==
    IF Len(ts) = 1 THEN ts[1]
    ELSE Join(ks[1], ts[1], RightNest(Tail(ts), Tail(ks)))

OperandTrees == [i \in 1..Len(operands) |-> parse_str(operands[i]).val]

\* C6: operands joined by and and or keywords parse to the operands' trees
\* nested to the right in text order, whatever the keywords: x1 o1 x2 o2 x3
\* is O1(x1, O2(x2, x3)).
C6_ChainsRightNest ==
    (/\ ppc = "parsed"
     /\ Len(operands) >= 2
     /\ \A i \in 1..Len(operands) : IsOperand(operands[i]))
    => parsed[1] = Ok(RightNest(OperandTrees, keywords))

\* An and before an or, over three operands, parsed to And(x1, Or(x2, x3)).
C6_Witness ==
    /\ ppc = "parsed"
    /\ Len(operands) = 3
    /\ \A i \in 1..3 : IsOperand(operands[i])
    /\ keywords = <<"and", "or">>
    /\ parsed[1].ok
    /\ parsed[1].val.tag = "And"
    /\ parsed[1].val.rhs.tag = "Or"

\* The characters str::trim removes and rule _ does not match.
TrimmedOnly == WhiteSpace \ WhitespaceChars

\* The whitespace str::trim removes from the beginning of the text holds no
\* character that only str::trim takes for whitespace: rule _ matches all
\* of it.
BeginsInGrammar(t) ==
    \A i \in 1..(Len(t) - Len(TrimStart(t))) : t[i] \notin TrimmedOnly

\* The same of the whitespace str::trim removes from the end of the text.
EndsInGrammar(t) ==
    \A i \in (Len(TrimEnd(t)) + 1)..Len(t) : t[i] \notin TrimmedOnly

\* C7 amended: when a query whose leading whitespace holds no character
\* other than space, tab, CR and LF parses to a tree t, "not " before the
\* query parses to Not(t), the whole rest of the text negated; a not after a
\* keyword negates all of the text to its right and none of the operand to
\* its left.
C7_NotNegatesRestInGrammar ==
    /\ (ppc = "negated" /\ parsed[1].ok /\ BeginsInGrammar(input))
       => derived_parsed[1] = Ok(Not(parsed[1].val))
    /\ (ppc = "join_negated" /\ parsed[1].ok /\ IsOperand(side) /\ BeginsInGrammar(input))
       => derived_parsed[1] =
              Ok(Join(keyword, parse_str(side).val, Not(parsed[1].val)))

\* C7 as stated: when a query parses to a tree t, "not " before the query
\* parses to Not(t), the whole rest of the text negated; a not after a
\* keyword negates all of the text to its right and none of the operand to
\* its left.
C7_NotNegatesRest ==
    /\ (ppc = "negated" /\ parsed[1].ok)
       => derived_parsed[1] = Ok(Not(parsed[1].val))
    /\ (ppc = "join_negated" /\ parsed[1].ok /\ IsOperand(side))
       => derived_parsed[1] =
              Ok(Join(keyword, parse_str(side).val, Not(parsed[1].val)))

\* "not " before a query that parsed to an and or an or.
C7_Witness ==
    /\ ppc = "negated"
    /\ parsed[1].ok
    /\ parsed[1].val.tag \in {"And", "Or"}
    /\ derived_parsed[1].ok
    /\ derived_parsed[1].val.tag = "Not"

\* C8 amended: when a query whose leading and trailing whitespace holds no
\* character other than space, tab, CR and LF parses to a tree t, the query
\* in parentheses parses to t as well, and the parenthesized query before a
\* keyword and a filter g whose leading whitespace holds no other character
\* either parses to the keyword's node over t and the tree of g.
C8_ParenthesesGroupInGrammar ==
    /\ (ppc = "grouped" /\ parsed[1].ok
            /\ BeginsInGrammar(input) /\ EndsInGrammar(input))
       => derived_parsed[1] = parsed[1]
    /\ (ppc = "grouped_join" /\ parsed[1].ok /\ parse_str(side).ok
            /\ BeginsInGrammar(input) /\ EndsInGrammar(input)
            /\ BeginsInGrammar(side))
       => derived_parsed[1] =
              Ok(Join(keyword, parsed[1].val, parse_str(side).val))

\* C8 as stated: when a query parses to a tree t, the query in parentheses
\* parses to t as well, and the parenthesized query before a keyword and a
\* filter g parses to the keyword's node over t and the tree of g.
C8_ParenthesesOnlyGroup ==
    /\ (ppc = "grouped" /\ parsed[1].ok) => derived_parsed[1] = parsed[1]
    /\ (ppc = "grouped_join" /\ parsed[1].ok /\ parse_str(side).ok)
       => derived_parsed[1] =
              Ok(Join(keyword, parsed[1].val, parse_str(side).val))

\* A parenthesized query that itself holds an and or an or, before or g.
C8_Witness ==
    /\ ppc = "grouped_join"
    /\ keyword = "or"
    /\ parsed[1].ok
    /\ parsed[1].val.tag \in {"And", "Or"}
    /\ derived_parsed[1].ok
    /\ derived_parsed[1].val.tag = "Or"
    /\ derived_parsed[1].val.lhs = parsed[1].val

\* The text to_query_string returns for a tree.
TextOf(e) == to_query_string(e).val

RECURSIVE CommaSeparated(_)
\* The texts of a list with ", " between them.
CommaSeparated(ts) ==
    IF ts = <<>> THEN <<>>
    ELSE IF Len(ts) = 1 THEN ts[1]
    ELSE ts[1] \o <<",", " ">> \o CommaSeparated(Tail(ts))

\* The text of the tree e in terms of the texts of its children taken by
\* themselves: a child c is written between parentheses when Wraps(e, c).
WrittenFromChildren(e, Wraps(_, _)) ==
    LET Child(c) == IF Wraps(e, c) THEN <<"(">> \o TextOf(c) \o <<")">> ELSE TextOf(c)
        Children(cs) == CommaSeparated([i \in 1..Len(cs) |-> Child(cs[i])])
    IN  CASE e.tag = "Or" -> Child(e.lhs) \o <<" ", "o", "r", " ">> \o Child(e.rhs)
          [] e.tag = "And" -> Child(e.lhs) \o <<" ", "a", "n", "d", " ">> \o Child(e.rhs)
          [] e.tag = "Not" -> <<"n", "o", "t", " ">> \o Child(e.inner)
          [] e.tag = "Compare" ->
                Child(e.lhs) \o <<" ">> \o CompareOperator_fmt(e.op) \o <<" ">> \o Child(e.rhs)
          [] e.tag = "In" ->
                Child(e.lhs) \o <<" ", "i", "n", " ", "(">> \o Children(e.values) \o <<")">>
          [] e.tag = "Function" -> e.name \o <<"(">> \o Children(e.args) \o <<")">>
          [] e.tag = "Lambda" ->
                Child(e.lhs) \o <<"/">> \o LambdaOperator_fmt(e.op) \o <<"(">> \o e.var \o <<":">>
                    \o Child(e.body) \o <<")">>
          [] OTHER -> TextOf(e)

IsJoin(e) == e.tag \in {"Or", "And"}

\* An Or/And node is wrapped when it is an operand of an Or/And node.
WrapsJoinUnderJoin(parent, child) == IsJoin(child) /\ IsJoin(parent)

\* An Or/And node is wrapped under a parent of any kind.
WrapsJoinUnderAny(parent, child) == IsJoin(child)

\* C17 as stated: to_query_string wraps an Or/And node in parentheses iff the
\* node is a direct operand of another Or/And node; the root is never
\* parenthesized, and an Or/And node under a Not, In, Function, Lambda or
\* Compare node is written without added parentheses.
C17_ParenthesesUnderJoinOnly ==
    spc = "written" => soutput[1] = Ok(WrittenFromChildren(stree, WrapsJoinUnderJoin))

\* C17 amended: to_query_string wraps an Or/And node in parentheses iff the
\* node is not the root of the tree, whatever its parent is: an operand of an
\* Or/And, Not or Compare node, an element of an In list, an argument of a
\* Function and the body of a Lambda are all wrapped; the root is never
\* parenthesized.
C17_ParenthesesUnlessRoot ==
    spc = "written" => soutput[1] = Ok(WrittenFromChildren(stree, WrapsJoinUnderAny))

\* A Compare node with an Or operand has been written, the operand between
\* parentheses.
C17_Witness ==
    /\ spc = "written" /\ stree.tag = "Compare" /\ stree.lhs.tag = "Or"
    /\ soutput[1].ok
    /\ Head(soutput[1].val) = "("
    /\ SubSeq(soutput[1].val, 2, Len(TextOf(stree.lhs)) + 1) = TextOf(stree.lhs)

\* The number of quotes among the first i characters of s.
QuotesBefore(s, i) == Cardinality({ j \in 1..i : s[j] = "'" })

\* C18: to_query_string(Value(String(s))) is a quote, then s with every
\* quote replaced by two quotes and every other character (backslash, line
\* feed, tab) copied unchanged, then a quote.
C18_StringLiteralWritten ==
    (spc = "written" /\ stree.tag = "Value" /\ stree.value.kind = "String")
    => LET s == stree.value.v
           t == soutput[1].val
           at(i) == i + 1 + QuotesBefore(s, i - 1)
       IN  /\ soutput[1].ok
           /\ Len(t) = Len(s) + QuotesBefore(s, Len(s)) + 2
           /\ t[1] = "'" /\ t[Len(t)] = "'"
           /\ \A i \in 1..Len(s) :
                /\ t[at(i)] = s[i]
                /\ s[i] = "'" => t[at(i) + 1] = "'"

\* A string holding a quote, a backslash and a line feed has been written.
C18_Witness ==
    /\ spc = "written" /\ stree = Value(Value_String(<<"'", "\\", "\n">>))
    /\ soutput[1] = Ok(<<"'", "'", "'", "\\", "\n", "'">>)

\* The character a backslash and the character c stand for.
Unescaped(c) ==
    CASE c = "'" -> "'"
      [] c = "n" -> "\n"
      [] c = "r" -> "\r"
      [] c = "t" -> "\t"
      [] c = "\\" -> "\\"

RECURSIVE ScanLiteral(_, _, _)
\* Reads the text t of a string literal from position i on, after the
\* characters acc: where the literal ends (0 if it has no end) and the
\* characters it holds.  A backslash with ' n r t or a backslash after it is
\* an escape; any other backslash stands for itself.
ScanLiteral(t, i, acc) ==
    IF i > Len(t) THEN [end |-> 0, chars |-> acc]
    ELSE IF t[i] = "'" THEN [end |-> i, chars |-> acc]
    ELSE IF t[i] = "\\" /\ i < Len(t) /\ t[i + 1] \in {"'", "n", "r", "t", "\\"}
         THEN ScanLiteral(t, i + 2, Append(acc, Unescaped(t[i + 1])))
         ELSE ScanLiteral(t, i + 1, Append(acc, t[i]))

\* C19: a string literal ends at the first quote that is not escaped by a
\* backslash, so two adjacent quotes are not an escape for one quote (the
\* second one starts a text that is no filter); inside the literal a
\* backslash followed by ' n r t or a backslash decodes to quote, LF, CR,
\* TAB, backslash, and the value is the decoded characters in order.
C19_StringLiteralParsed ==
    (ppc = "parsed" /\ input \in StringLiteralTexts)
    => LET lit == ScanLiteral(input, 2, <<>>) IN
       parsed[1] = IF lit.end = Len(input)
                   THEN Ok(Value(Value_String(lit.chars)))
                   ELSE Err("Parsing")

\* A literal with an escaped quote inside has been parsed to the string
\* holding the quote, and one with two adjacent quotes has not been read as
\* a string with one quote.
C19_Witness ==
    /\ ppc = "parsed"
    /\ input = <<"'", "\\", "'", "x", "'">>
    /\ parsed[1] = Ok(Value(Value_String(<<"'", "x">>)))
    /\ parse_str(<<"'", "x", "'", "'", "x", "'">>) = Err("Parsing")

\* No literal of the text holds a space or a punctuation character: the text
\* has no string, date, time or zone in it.
PunctuationIsToken(t) ==
    /\ \A i \in 1..Len(t) : t[i] \notin {"'", "-", "+"}
    /\ \A i \in 2..Len(t) : t[i] = ":" => t[i - 1] \notin Digit

\* C20: parse_str(w1 + f + w2) equals parse_str(f) for leading and trailing
\* whitespace w1, w2, and changing the amount of space, tab, CR, LF between
\* two adjacent tokens of f (around '/', the any/all keyword and the opening
\* parenthesis of a lambda, around commas and parentheses) does not change
\* the parse result.
C20_WhitespaceInsensitive ==
    (ppc = "respaced" /\ PunctuationIsToken(input))
    => derived_parsed[1] = parsed[1]

\* The kinds of ParseError of a literal that fails conversion.
LiteralErrorKinds ==
    { "ParsingDate", "ParsingTime", "ParsingNumber", "ParsingUuid", "ParsingDateTime",
      "ParsingTimeZone", "ParsingTimeZoneNamed", "ParsingUnicodeCodePoint" }

\* The text is refused for a literal that failed conversion.
LiteralError(r) == ~r.ok /\ r.err \in LiteralErrorKinds

\* C21: parse_str is Err(Parsing) whenever the grammar does not match the
\* whole trimmed text, also when a literal that matched its pattern and
\* failed conversion stands before the point of failure; a kind of literal
\* error is returned only when the whole text matches the grammar, and is
\* then the error the grammar's actions yield.
C21_ErrorClassification ==
    /\ ppc = "parsed" =>
            LET matched == odata_filter_parse_str(Trim(input)) IN
            /\ ~matched.ok => parsed[1] = Err("Parsing")
            /\ LiteralError(parsed[1]) => (matched.ok /\ matched.val = parsed[1])
            /\ (matched.ok /\ ~matched.val.ok) => LiteralError(parsed[1])
    /\ ppc = "trailing" => derived_parsed[1] = Err("Parsing")

\* A text refused for its date has been parsed again with an unmatched token
\* after it, and refused as a text the grammar does not match.
C21_Witness ==
    /\ ppc = "trailing" /\ parsed[1] = Err("ParsingDate")
    /\ derived_parsed[1] = Err("Parsing")

\* C22: when a text matches the grammar and holds more than one literal that
\* fails conversion, parse_str returns the error of the failing literal that
\* stands first in the text: for two failing literals joined by or or and,
\* and for a failing literal compared with a failing literal (an invalid
\* date eq an invalid time is Err(ParsingDate)).
C22_FirstParseErrorWins ==
    /\ (/\ ppc = "parsed" /\ Len(operands) = 2
        /\ operands[1] \in FailingLiterals /\ operands[2] \in FailingLiterals)
            => parsed[1] = parse_str(operands[1])
    /\ (ppc = "compared" /\ input \in FailingLiterals)
            => derived_parsed[1] = parsed[1]

\* The kinds of node rule value_expr builds.
ValueExprTags == {"Function", "Lambda", "Value", "Alias", "Identifier"}

RECURSIVE FunctionArgumentsIn(_)
\* The arguments of the Function nodes of a tree.
FunctionArgumentsIn(e) ==
    LET Of(es) == UNION { FunctionArgumentsIn(es[i]) : i \in 1..Len(es) } IN
    CASE e.tag \in {"Or", "And", "Compare"} ->
            FunctionArgumentsIn(e.lhs) \cup FunctionArgumentsIn(e.rhs)
      [] e.tag = "Not" -> FunctionArgumentsIn(e.inner)
      [] e.tag = "In" -> FunctionArgumentsIn(e.lhs) \cup Of(e.values)
      [] e.tag = "Function" -> { e.args[i] : i \in 1..Len(e.args) } \cup Of(e.args)
      [] e.tag = "Lambda" -> FunctionArgumentsIn(e.lhs) \cup FunctionArgumentsIn(e.body)
      [] OTHER -> {}

\* C23 as stated: every argument of a Function node produced by parse_str is
\* a value-expression (function call, lambda, literal, alias or identifier),
\* and 'ff(aa eq bb)' is not parsed into a Function node with a Compare
\* argument.
C23_ArgumentsAreValueExpressions ==
    /\ (ppc = "parsed" /\ parsed[1].ok)
            => \A a \in FunctionArgumentsIn(parsed[1].val) : a.tag \in ValueExprTags
    /\ (ppc = "argument" /\ derived_parsed[1].ok)
            => \A a \in FunctionArgumentsIn(derived_parsed[1].val) : a.tag \in ValueExprTags

\* C23 amended: every argument of a Function node produced by parse_str is a
\* filter: for every text x that parses to a tree t, be it a value-expression,
\* a comparison, an in-test, a negation or an and/or expression, and whose
\* leading and trailing whitespace holds no character other than space, tab,
\* CR and LF, 'ff(x)' parses to Function(ff, [t]).
C23_ArgumentsAreFilters ==
    (ppc = "argument" /\ parsed[1].ok
        /\ BeginsInGrammar(input) /\ EndsInGrammar(input))
    => derived_parsed[1] = Ok(Function(<<"f", "f">>, <<parsed[1].val>>))

\* A comparison has been parsed as the argument of a call.
C23_Witness ==
    /\ ppc = "argument" /\ parsed[1].ok /\ parsed[1].val.tag = "Compare"
    /\ derived_parsed[1].ok /\ derived_parsed[1].val.tag = "Function"
    /\ derived_parsed[1].val.args[1].tag = "Compare"

RECURSIVE NamesIn(_)
\* The names of the Identifier nodes of a tree, the bound variables of its
\* Lambda nodes and the names of its Function nodes.
NamesIn(e) ==
    LET Of(es) == UNION { NamesIn(es[i]) : i \in 1..Len(es) } IN
    CASE e.tag \in {"Or", "And", "Compare"} -> NamesIn(e.lhs) \cup NamesIn(e.rhs)
      [] e.tag = "Not" -> NamesIn(e.inner)
      [] e.tag = "In" -> NamesIn(e.lhs) \cup Of(e.values)
      [] e.tag = "Function" -> {e.name} \cup Of(e.args)
      [] e.tag = "Lambda" -> {e.var} \cup NamesIn(e.lhs) \cup NamesIn(e.body)
      [] e.tag = "Identifier" -> {e.name}
      [] OTHER -> {}

\* The names of the tree of a result, if it has one.
NamesOf(r) == IF r # None /\ r[1].ok THEN NamesIn(r[1].val) ELSE {}

\* C24: a text with a single letter or underscore at an identifier position
\* (bare identifier, comparison operand, function name, lambda collection,
\* lambda bound variable) is rejected with Err(Parsing), and no tree parse_str
\* returns has an Identifier, a Lambda variable or a Function of a
\* one-character name.
C24_IdentifiersNeedTwoCharacters ==
    /\ ppc = "shortened" => derived_parsed[1] = Err("Parsing")
    /\ \A name \in NamesOf(parsed) \cup NamesOf(reparsed) \cup NamesOf(derived_parsed) :
            Len(name) >= 2

\* 'xs/any(a: a eq 1 or aa)' has been rejected, and the same text with aa
\* for a is parsed.
C24_Witness ==
    /\ ppc = "shortened" /\ input = <<"a", "a">> /\ side = <<"a">>
    /\ derived = NamedAt("lambda variable", <<"a">>, input)
    /\ derived_parsed[1] = Err("Parsing")
    /\ parse_str(NamedAt("lambda variable", <<"a", "a">>, input)).ok

\* A text the identifier grammar matches as a whole.
IsIdentifierText(t) ==
    /\ Len(t) >= 2 /\ t[1] \in IdentifierStart
    /\ \A i \in 2..Len(t) : t[i] \in IdentifierRest

\* The capital of a letter of the words true, false and null.
CapitalOf == [c \in {"t", "r", "u", "e", "f", "a", "l", "s", "n"} |->
    CASE c = "t" -> "T" [] c = "r" -> "R" [] c = "u" -> "U" [] c = "e" -> "E"
      [] c = "f" -> "F" [] c = "a" -> "A" [] c = "l" -> "L" [] c = "s" -> "S"
      [] c = "n" -> "N"]

\* The words true, false and null in any letter case: literals, not names.
IsLiteralWord(t) ==
    \E w \in { <<"t", "r", "u", "e">>, <<"f", "a", "l", "s", "e">>, <<"n", "u", "l", "l">> } :
        /\ Len(t) = Len(w)
        /\ \A i \in 1..Len(w) : t[i] \in {w[i], CapitalOf[w[i]]}

\* A name: an identifier text that is not a literal word.
IsName(t) == IsIdentifierText(t) /\ ~IsLiteralWord(t)

\* C25: every text that matches the identifier grammar parses, as a whole
\* filter, to Ok(Identifier(text)), and as the operands of a comparison to
\* Identifier nodes, also when it begins with the letters of not, true, false
\* or null.
C25_IdentifierTextsAreIdentifiers ==
    ppc = "parsed" =>
        /\ IsName(input) => parsed[1] = Ok(Identifier(input))
        /\ \A i \in 1..(Len(input) - 3) :
            LET l == SubSeq(input, 1, i - 1)
                r == SubSeq(input, i + 4, Len(input)) IN
            (SubSeq(input, i, i + 3) = <<" ", "e", "q", " ">> /\ IsName(l) /\ IsName(r))
            => parsed[1] = Ok(Compare(Identifier(l), "Equal", Identifier(r)))

=============================================================================
